---- MODULE Spec2Model ----
(***************************************************************************)
(* The PII anonymization engine of mira-feedback: the entity tag registry  *)
(* and substitution loop of LocalAnonymizer, LocalDeanonymizer, and the    *)
(* directory walkers DirectoryAnonymizer / DirectoryDeanonymizer with the  *)
(* Moodle grades handler.                                                  *)
(*                                                                         *)
(* Strings are sequences of one-character strings, so that str.replace,    *)
(* "in", str.strip and the f-string that builds a token act on characters  *)
(* as they do in Python.  Dictionaries that the code iterates are ordered  *)
(* lists of <<key, value>> pairs (Python dicts keep insertion order);      *)
(* dictionaries that are only looked up are functions.                     *)
(***************************************************************************)
EXTENDS Integers, Sequences, FiniteSets, TLC

\* ------------------------------------------------------------------ bounds

\* Number of distinct person names of the vocabulary.
MaxNames == 10

\* anonymize_data calls explored in one session (between two reset()).
MaxCalls == 2

\* Longest mapping whose every iteration order is enumerated.
MaxPermLen == 3

\* The files of an input tree, the grades file not counted.
MaxFiles == 3

\* The longest text chunked, in characters.
MaxTextLen == 5

\* The values of max_tokens: MinTokens..MaxTokens.
MinTokens == 0 - 1

MaxTokens == 3

\* chunk_text: lookback_words: int = 5
lookback_words_default == 5

\* ------------------------------------------------------------- characters

Digits == <<"0", "1", "2", "3", "4", "5", "6", "7", "8", "9">>

DigitSet == {Digits[i] : i \in 1..10}

LowerCase == <<"a", "b", "c", "d", "e", "f", "g", "h", "i", "j", "k", "l", "m",
               "n", "o", "p", "q", "r", "s", "t", "u", "v", "w", "x", "y", "z">>

UpperCase == <<"A", "B", "C", "D", "E", "F", "G", "H", "I", "J", "K", "L", "M",
               "N", "O", "P", "Q", "R", "S", "T", "U", "V", "W", "X", "Y", "Z">>

LetterSet == {LowerCase[i] : i \in 1..26} \cup {UpperCase[i] : i \in 1..26}

\* The characters of the model in code-point order (str comparison).
CodePoints == <<"\n", "\r", " ", "-", ".", "/">> \o Digits \o <<"@">> \o UpperCase
              \o <<"_">> \o LowerCase

Ord(c) == CHOOSE i \in 1..Len(CodePoints) : CodePoints[i] = c

\* str.upper() on one character.
UpperChar(c) ==
    IF \E i \in 1..26 : LowerCase[i] = c
    THEN UpperCase[CHOOSE i \in 1..26 : LowerCase[i] = c]
    ELSE c

Upper(s) == [i \in 1..Len(s) |-> UpperChar(s[i])]

\* ---------------------------------------------------------------- strings

\* "sub in s"
Contains(s, sub) ==
    \E i \in 1..(Len(s) - Len(sub) + 1) :
        (sub # << >> => s[i] = sub[1]) /\ SubSeq(s, i, i + Len(sub) - 1) = sub

\* The places where old occurs in s.
Occurrences(s, old) ==
    {k \in 1..(Len(s) - Len(old) + 1) :
        s[k] = old[1] /\ SubSeq(s, k, k + Len(old) - 1) = old}

Min(S) == CHOOSE x \in S : \A y \in S : x <= y

\* s from place i on, the occurrences of old (at the places hits) taken left to
\* right without overlap and replaced by new.
RECURSIVE ReplaceFrom(_, _, _, _, _)
ReplaceFrom(s, hits, oldLen, new, i) ==
    LET ahead == {k \in hits : k >= i}
    IN  IF ahead = {} THEN SubSeq(s, i, Len(s))
        ELSE LET k == Min(ahead)
             IN  SubSeq(s, i, k - 1) \o new \o ReplaceFrom(s, hits, oldLen, new, k + oldLen)

RECURSIVE Interleave(_, _, _)
Interleave(s, new, i) ==
    IF i > Len(s) THEN << >> ELSE <<s[i]>> \o new \o Interleave(s, new, i + 1)

\* s.replace(old, new): every non-overlapping occurrence, left to right; an
\* empty old matches before every character and at the end.
Replace(s, old, new) ==
    IF old = << >> THEN new \o Interleave(s, new, 1)
    ELSE ReplaceFrom(s, Occurrences(s, old), Len(old), new, 1)

IsSpace(c) == c \in {" ", "\n", "\r"}

RECURSIVE LStrip(_)
LStrip(s) == IF s # << >> /\ IsSpace(Head(s)) THEN LStrip(Tail(s)) ELSE s

RECURSIVE RStrip(_)
RStrip(s) ==
    IF s # << >> /\ IsSpace(s[Len(s)]) THEN RStrip(SubSeq(s, 1, Len(s) - 1)) ELSE s

\* s.strip()
Strip(s) == RStrip(LStrip(s))

\* s.rstrip('S')
RECURSIVE RStripS(_)
RStripS(s) ==
    IF s # << >> /\ s[Len(s)] = "S" THEN RStripS(SubSeq(s, 1, Len(s) - 1)) ELSE s

\* str(n) for n >= 0
RECURSIVE Str(_)
Str(n) == IF n < 10 THEN <<Digits[n + 1]>> ELSE Str(n \div 10) \o <<Digits[(n % 10) + 1]>>

\* sep.join(words)
RECURSIVE Join(_, _)
Join(words, sep) ==
    IF words = << >> THEN << >>
    ELSE IF Len(words) = 1 THEN words[1]
    ELSE words[1] \o sep \o Join(Tail(words), sep)

\* s.split(sep) for a one-character sep
RECURSIVE SplitOn(_, _)
SplitOn(s, sep) ==
    IF \E i \in 1..Len(s) : s[i] = sep
    THEN LET i == CHOOSE k \in 1..Len(s) : s[k] = sep /\ \A m \in 1..(k - 1) : s[m] # sep
         IN  <<SubSeq(s, 1, i - 1)>> \o SplitOn(SubSeq(s, i + 1, Len(s)), sep)
    ELSE <<s>>

\* The words of a text between single spaces; none for the empty text.
WordsOf(s) == SelectSeq(SplitOn(s, " "), LAMBDA w : w # << >>)

\* ----------------------------------------------------- ordered dictionaries

Keys(d) == {d[i][1] : i \in 1..Len(d)}

Values(d) == {d[i][2] : i \in 1..Len(d)}

HasKey(d, k) == \E i \in 1..Len(d) : d[i][1] = k

DictGet(d, k) == d[CHOOSE i \in 1..Len(d) : d[i][1] = k][2]

\* d[k] = v: a present key keeps its place, a new key goes last.
DictSet(d, k, v) ==
    IF HasKey(d, k)
    THEN [i \in 1..Len(d) |-> IF d[i][1] = k THEN <<k, v>> ELSE d[i]]
    ELSE Append(d, <<k, v>>)

\* d.update(e)
RECURSIVE DictUpdate(_, _)
DictUpdate(d, e) ==
    IF e = << >> THEN d ELSE DictUpdate(DictSet(d, e[1][1], e[1][2]), Tail(e))

\* The orders in which the elements of a set can be listed: list(set(xs)).
RECURSIVE ListsOf(_)
ListsOf(S) ==
    IF S = {} THEN {<< >>}
    ELSE UNION {{<<x>> \o l : l \in ListsOf(S \ {x})} : x \in S}

Range(s) == {s[i] : i \in 1..Len(s)}

\* ------------------------------------------------------------- vocabulary

\* Person names: one lower-case letter each.
Name(i) == <<LowerCase[i]>>

Names == {Name(i) : i \in 1..MaxNames}

\* E-mail addresses: <letter>@x.io
Email(i) == <<LowerCase[i], "@", "x", ".", "i", "o">>

Url == <<"x", ".", "i", "o">>

\* 'ED', the abbreviation of an organization
ED == <<"E", "D">>

Roster(n) == Join([i \in 1..n |-> Name(i)], <<" ">>)

\* The texts handed to anonymize_data.
Texts ==
    { << >>,
      Roster(2), Roster(MaxNames - 1), Roster(MaxNames),
      Join(<<Name(1), Name(MaxNames)>>, <<" ">>),
      Join(<<Name(2), Name(1), Name(2)>>, <<" ">>),
      Join(<<Name(1), Email(1)>>, <<" ">>),
      Join(<<Email(2), Email(1), Url>>, <<" ">>),
      Join(<<ED, Name(1)>>, <<" ">>) }

\* ------------------------------------------------------------- categories

PERSONS == <<"p", "e", "r", "s", "o", "n", "s">>

EMAILS == <<"e", "m", "a", "i", "l", "s">>

PHONES == <<"p", "h", "o", "n", "e", "s">>

ADDRESSES == <<"a", "d", "d", "r", "e", "s", "s", "e", "s">>

ORGANIZATIONS == <<"o", "r", "g", "a", "n", "i", "z", "a", "t", "i", "o", "n", "s">>

CREDIT_CARDS == <<"c", "r", "e", "d", "i", "t", "_", "c", "a", "r", "d", "s">>

SSN == <<"s", "s", "n">>

IPV4 == <<"i", "p", "v", "4">>

\* A category outside the tag table (PresidioBackend.ENTITY_TYPE_MAPPING: URL).
URLS == <<"u", "r", "l", "s">>

PERSON == <<"P", "E", "R", "S", "O", "N">>

EMAIL == <<"E", "M", "A", "I", "L">>

tag_names ==
    << <<PERSONS, PERSON>>,
       <<EMAILS, EMAIL>>,
       <<PHONES, <<"P", "H", "O", "N", "E">> >>,
       <<ADDRESSES, <<"A", "D", "D", "R", "E", "S", "S">> >>,
       <<ORGANIZATIONS, <<"O", "R", "G">> >>,
       <<CREDIT_CARDS, <<"C", "R", "E", "D", "I", "T", "C", "A", "R", "D">> >>,
       <<SSN, <<"S", "S", "N">> >>,
       <<IPV4, <<"I", "P">> >> >>

\* tag_names.get(category, category.upper().rstrip('S'))
tag_name(category) ==
    IF HasKey(tag_names, category) THEN DictGet(tag_names, category)
    ELSE RStripS(Upper(category))

Categories == Keys(tag_names) \cup {URLS}

TagNames == {tag_name(c) : c \in Categories}

REDACTED_ == <<"R", "E", "D", "A", "C", "T", "E", "D", "_">>

\* f"REDACTED_{tag_name}{counter}"
Token(tag, counter) == REDACTED_ \o tag \o Str(counter)

\* defaultdict(int)
ZeroCounters == [t \in TagNames |-> 0]

\* {}
EmptyDict == << >>

\* ---------------------------------------------------------- regex detector

IsDigit(c) == c \in DigitSet

\* \b\d{3}-\d{2}-\d{4}\b on one word
IsSsn(w) ==
    /\ Len(w) = 11
    /\ \A i \in 1..11 : IF i \in {4, 7} THEN w[i] = "-" ELSE IsDigit(w[i])

\* \d{3}[-.\s]?\d{3}[-.\s]?\d{4} on one word, separators present
IsPhone(w) ==
    /\ Len(w) = 12
    /\ \A i \in 1..12 : IF i \in {4, 8} THEN w[i] \in {"-", "."} ELSE IsDigit(w[i])

\* \d{4}[-\s]?\d{4}[-\s]?\d{4}[-\s]?\d{4} on one word, no separators
IsCreditCard(w) == Len(w) = 16 /\ \A i \in 1..16 : IsDigit(w[i])

\* (?:[0-9]{1,3}\.){3}[0-9]{1,3} on one word
IsIpv4(w) ==
    LET parts == SplitOn(w, ".")
    IN  /\ Len(parts) = 4
        /\ \A i \in 1..4 : Len(parts[i]) \in 1..3 /\ \A k \in 1..Len(parts[i]) : IsDigit(parts[i][k])

\* [A-Za-z0-9._%+-]+@[A-Za-z0-9.-]+\.[A-Z|a-z]{2,} on one word
IsEmail(w) ==
    \E i \in 2..Len(w) : \E j \in (i + 2)..(Len(w) - 2) :
        /\ w[i] = "@"
        /\ w[j] = "."
        /\ \A k \in 1..(i - 1) : w[k] \in LetterSet \cup DigitSet \cup {".", "_", "-"}
        /\ \A k \in (i + 1)..(j - 1) : w[k] \in LetterSet \cup DigitSet \cup {".", "-"}
        /\ \A k \in (j + 1)..Len(w) : w[k] \in LetterSet

\* The patterns in the order the dict lists them.
patterns == <<SSN, CREDIT_CARDS, EMAILS, PHONES, IPV4>>

WordMatches(category, w) ==
    CASE category = SSN -> IsSsn(w)
      [] category = CREDIT_CARDS -> IsCreditCard(w)
      [] category = EMAILS -> IsEmail(w)
      [] category = PHONES -> IsPhone(w)
      [] category = IPV4 -> IsIpv4(w)
      [] OTHER -> FALSE

\* re.findall(pattern, text): the words of the text that match, in text order.
\* For phones the words that are SSN matches are dropped.
findall(category, t) ==
    LET ms == SelectSeq(WordsOf(t), LAMBDA w : WordMatches(category, w))
    IN  IF category = PHONES
        THEN SelectSeq(ms, LAMBDA m : ~IsSsn(m))
        ELSE ms

\* The results _detect_regex_patterns can return for patterns k..: each
\* category with matches gets list(set(matches)), whose order is the set's.
RECURSIVE DetectFrom(_, _)
DetectFrom(t, k) ==
    IF k > Len(patterns) THEN {EmptyDict}
    ELSE LET ms == Range(findall(patterns[k], t))
         IN  IF ms = {} THEN DetectFrom(t, k + 1)
             ELSE {<< <<patterns[k], l>> >> \o rest :
                      l \in ListsOf(ms), rest \in DetectFrom(t, k + 1)}

_detect_regex_patterns(t) == DetectFrom(t, 1)

\* The order list(set(xs)) gives the elements of xs.
SetOrders(xs) == ListsOf(Range(xs))

\* The results _merge_pii_data can return: a category of both inputs gets
\* list(set(a + b)); a category of the regex result alone is added last.
RECURSIVE _merge_pii_data(_, _)
_merge_pii_data(llm_pii, regex_pii) ==
    IF regex_pii = << >> THEN {llm_pii}
    ELSE LET category == regex_pii[1][1]
             entities == regex_pii[1][2]
         IN  IF HasKey(llm_pii, category)
             THEN UNION {_merge_pii_data(DictSet(llm_pii, category, l), Tail(regex_pii)) :
                            l \in SetOrders(DictGet(llm_pii, category) \o entities)}
             ELSE _merge_pii_data(DictSet(llm_pii, category, entities), Tail(regex_pii))

\* ------------------------------------------------------- LocalAnonymizer

\* A _generate_replacement that counts in twos.
_generate_replacement_in_twos(counters, category) ==
    LET tag == tag_name(category)
        incremented == [counters EXCEPT ![tag] = @ + 2]
    IN  [counters |-> incremented, token |-> Token(tag, incremented[tag])]

\* _generate_replacement: the counters after the increment, and the token.
_generate_replacement(counters, category) ==
    LET tag == tag_name(category)
        incremented == [counters EXCEPT ![tag] = @ + 1]
    IN  [counters |-> incremented, token |-> Token(tag, incremented[tag])]

\* A loop that never consults entity_memory.
RememberedNever(memory, entity) == FALSE

\* Whether the loop takes the token from entity_memory.
Remembered(memory, entity) == entity \in DOMAIN memory

\* The body of the loop over entities: st is the working state
\* [text, memory, counters, mappings].
SubstituteEntity(st, category, entity) ==
    IF ~Contains(st.text, entity) THEN st
    ELSE LET gen == _generate_replacement(st.counters, category)
             known == Remembered(st.memory, entity)
             replacement == IF known THEN st.memory[entity] ELSE gen.token
         IN  [text |-> Replace(st.text, entity, replacement),
              memory |-> IF known THEN st.memory
                         ELSE (entity :> replacement) @@ st.memory,
              counters |-> IF known THEN st.counters ELSE gen.counters,
              mappings |-> DictSet(st.mappings, replacement, entity)]

RECURSIVE SubstituteEntities(_, _, _)
SubstituteEntities(st, category, entities) ==
    IF entities = << >> THEN st
    ELSE SubstituteEntities(SubstituteEntity(st, category, entities[1]),
                            category, Tail(entities))

\* The loop over pii_data.items()
RECURSIVE SubstituteAll(_, _)
SubstituteAll(st, pii) ==
    IF pii = << >> THEN st
    ELSE SubstituteAll(SubstituteEntities(st, pii[1][1], pii[1][2]), Tail(pii))

\* The detections anonymize_data can work on: <<regex result, merged result>>.
Detections(t, llm) ==
    UNION {{<<rx, p>> : p \in _merge_pii_data(llm, rx)} : rx \in _detect_regex_patterns(t)}

\* anonymize_data(text) with the backend's detection llm, on the registry
\* (memory, counters): the set of results it can return, each
\* [text, mappings, memory, counters, regex, pii].
anonymize_data(t, llm, memory, counters) ==
    IF t = << >>
    THEN {[text |-> t, mappings |-> EmptyDict, memory |-> memory,
           counters |-> counters, regex |-> EmptyDict, pii |-> EmptyDict]}
    ELSE {LET r == SubstituteAll([text |-> t, memory |-> memory, counters |-> counters,
                                  mappings |-> EmptyDict], d[2])
          IN  [text |-> r.text, mappings |-> r.mappings, memory |-> r.memory,
               counters |-> r.counters, regex |-> d[1], pii |-> d[2]] :
             d \in Detections(t, llm)}

\* LocalDeanonymizer.deanonymize(text, mappings)
RECURSIVE ReplaceEach(_, _)
ReplaceEach(t, m) ==
    IF m = << >> THEN t
    ELSE ReplaceEach(Replace(t, m[1][1], m[1][2]), Tail(m))

deanonymize(t, m) == IF t = << >> \/ m = << >> THEN t ELSE ReplaceEach(t, m)

\* ------------------------------------------------------------ directories

\* Student names of the directory runs.
Student(i) == <<<<"A", "l">>, <<"B", "o">>>>[i]

Students == {Student(1), Student(2)}

StudentEmail(i) == <<<<"a", "l">>, <<"b", "o">>>>[i] \o <<"@", "x", ".", "i", "o">>

\* 'moodle_grades.csv'
GRADES_CSV == <<"m", "o", "o", "d", "l", "e", "_", "g", "r", "a", "d", "e", "s", ".", "c", "s", "v">>

ASSIGNSUBMISSION_ == <<"a", "s", "s", "i", "g", "n", "s", "u", "b", "m", "i", "s", "s", "i", "o", "n", "_">>

\* \w
IsWordChar(c) == c \in LetterSet \cup DigitSet \cup {"_"}

\* The match of r'^(.+?)_(\d+)_(assignsubmission_\w+)$' with the name group
\* ending before place i: digits up to the next "_", then the suffix to the end.
MoodleMatchAt(filename, i) ==
    /\ i >= 2
    /\ filename[i] = "_"
    /\ \E j \in (i + 2)..Len(filename) :
          /\ filename[j] = "_"
          /\ \A k \in (i + 1)..(j - 1) : IsDigit(filename[k])
          /\ Len(filename) > j + Len(ASSIGNSUBMISSION_)
          /\ SubSeq(filename, j + 1, j + Len(ASSIGNSUBMISSION_)) = ASSIGNSUBMISSION_
          /\ \A k \in (j + 1)..Len(filename) : IsWordChar(filename[k])

MoodleMatches(filename) == {i \in 1..Len(filename) : MoodleMatchAt(filename, i)}

\* is_moodle_submission(filename)
is_moodle_submission(filename) == MoodleMatches(filename) # {}

\* match.group(1), group(2), group(3): the name group is the shortest.
MoodleGroups(filename) ==
    LET i == Min(MoodleMatches(filename))
        j == CHOOSE k \in (i + 2)..Len(filename) :
                filename[k] = "_" /\ \A m \in (i + 1)..(k - 1) : IsDigit(filename[m])
    IN  [name_part |-> SubSeq(filename, 1, i - 1),
         id_part |-> SubSeq(filename, i + 1, j - 1),
         suffix_part |-> SubSeq(filename, j + 1, Len(filename))]

\* Path(filename).suffix: from the last dot on, unless the dot is first or last.
Suffix(filename) ==
    LET dots == {i \in 1..Len(filename) : filename[i] = "."}
    IN  IF dots = {} THEN << >>
        ELSE LET i == CHOOSE k \in dots : \A m \in dots : m <= k
             IN  IF 1 < i /\ i < Len(filename) THEN SubSeq(filename, i, Len(filename))
                 ELSE << >>

\* ''.join(Path(filename).suffixes): from the first dot after the first
\* character on.
Suffixes(filename) ==
    LET dots == {i \in 2..Len(filename) : filename[i] = "."}
    IN  IF dots = {} \/ filename[Len(filename)] = "." THEN << >>
        ELSE SubSeq(filename, Min(dots), Len(filename))

\* str(path): the components joined by "/"
PathStr(parts) == Join(parts, <<"/">>)

\* a < b for strings
StrLess(a, b) ==
    \E i \in 1..Len(b) :
        /\ \A k \in 1..(i - 1) : k <= Len(a) /\ a[k] = b[k]
        /\ (i > Len(a) \/ (i <= Len(a) /\ Ord(a[i]) < Ord(b[i])))

\* A sort by str(p) alone.
PathLessByString(p, q) == StrLess(PathStr(p), PathStr(q))

\* The sort key (len(p.parts), str(p))
PathLess(p, q) ==
    \/ Len(p) < Len(q)
    \/ Len(p) = Len(q) /\ StrLess(PathStr(p), PathStr(q))

\* files_to_process.sort(key=...)
RECURSIVE SortPaths(_)
SortPaths(S) ==
    IF S = {} THEN << >>
    ELSE LET first == CHOOSE p \in S : \A q \in S \ {p} : PathLess(p, q)
         IN  <<first>> \o SortPaths(S \ {first})

\* Reading a file in text mode: "\r\n" and "\r" arrive as "\n".
ReadText(content) == Replace(Replace(content, <<"\r", "\n">>, <<"\n">>), <<"\r">>, <<"\n">>)

\* The configured file types.
file_types == { <<".", "p", "y">>, <<".", "m", "d">>, <<".", "t", "x", "t">>,
                <<".", "y", "a", "m", "l">> }

\* should_process_file(path): no file of the model matches an exclude pattern.
should_process_file(path) ==
    \/ path[Len(path)] = GRADES_CSV
    \/ Suffix(path[Len(path)]) \in file_types

\* gather_files_to_process(input_path) for the files with these paths
gather_files_to_process(paths) ==
    LET eligible == {p \in paths : should_process_file(p)}
        moodle_csv == {p \in eligible : p = <<GRADES_CSV>>}
    IN  (IF moodle_csv = {} THEN << >> ELSE <<<<GRADES_CSV>>>>)
        \o SortPaths(eligible \ moodle_csv)

\* ------------------------------------------------------ MoodleGradesHandler

FULL_NAME == <<"F", "u", "l", "l", " ", "n", "a", "m", "e">>

EMAIL_ADDRESS == <<"E", "m", "a", "i", "l", " ", "a", "d", "d", "r", "e", "s", "s">>

\* csv.DictReader: the lines of the file, the first being the field names;
\* no field of the model needs quoting.
CsvLines(content) ==
    [i \in 1..Len(SelectSeq(SplitOn(content, "\n"), LAMBDA l : l # << >>)) |->
        SplitOn(SelectSeq(SplitOn(content, "\n"), LAMBDA l : l # << >>)[i], ",")]

\* csv.DictWriter with its default line terminator "\r\n"
RECURSIVE CsvText(_)
CsvText(lines) ==
    IF lines = << >> THEN << >>
    ELSE Join(lines[1], <<",">>) \o <<"\r", "\n">> \o CsvText(Tail(lines))

ColumnOf(fieldnames, column) ==
    IF \E i \in 1..Len(fieldnames) : fieldnames[i] = column
    THEN CHOOSE i \in 1..Len(fieldnames) : fieldnames[i] = column
    ELSE 0

\* MoodleGradesHandler.__init__
NewHandler ==
    [person_counter |-> 0, email_counter |-> 0, name_to_token |-> EmptyDict,
     email_to_token |-> EmptyDict]

\* One column of one row: h is the handler, counter and table name the
\* column's fields, tag its token's tag.  Returns the handler, the row and
\* the mappings after the column.
GradesColumn(st, col, tag, which) ==
    IF col = 0 \/ col > Len(st.row) \/ st.row[col] = << >> THEN st
    ELSE LET original == st.row[col]
             table == IF which = "name" THEN st.handler.name_to_token
                      ELSE st.handler.email_to_token
             counter == IF which = "name" THEN st.handler.person_counter
                        ELSE st.handler.email_counter
             known == original \in DOMAIN table
             token == IF known THEN table[original] ELSE Token(tag, counter + 1)
             table2 == IF known THEN table ELSE (original :> token) @@ table
             counter2 == IF known THEN counter ELSE counter + 1
         IN  [handler |-> IF which = "name"
                          THEN [st.handler EXCEPT !.name_to_token = table2,
                                                  !.person_counter = counter2]
                          ELSE [st.handler EXCEPT !.email_to_token = table2,
                                                  !.email_counter = counter2],
              row |-> [st.row EXCEPT ![col] = token],
              mappings |-> DictSet(st.mappings, original, token)]

\* The loop over the rows: st is [handler, mappings, rows done].
RECURSIVE GradesRows(_, _, _)
GradesRows(st, fieldnames, rows) ==
    IF rows = << >> THEN st
    ELSE LET named == GradesColumn([handler |-> st.handler, row |-> rows[1],
                                    mappings |-> st.mappings],
                                   ColumnOf(fieldnames, FULL_NAME), PERSON, "name")
             mailed == GradesColumn(named, ColumnOf(fieldnames, EMAIL_ADDRESS), EMAIL, "email")
         IN  GradesRows([handler |-> mailed.handler, mappings |-> mailed.mappings,
                         done |-> Append(st.done, mailed.row)],
                        fieldnames, Tail(rows))

\* anonymize_moodle_grades(file_path) on a file with this content: the
\* handler after it, the content and the mappings it returns.
anonymize_moodle_grades(handler, content) ==
    LET lines == CsvLines(content)
        fieldnames == lines[1]
        r == GradesRows([handler |-> handler, mappings |-> EmptyDict, done |-> << >>],
                        fieldnames, Tail(lines))
    IN  [handler |-> r.handler,
         content |-> CsvText(<<fieldnames>> \o r.done),
         mappings |-> r.mappings]

\* ------------------------------------------------------- backend detection

IsName(w) == w \in Names \cup Students

DistinctInOrder(ws) ==
    SelectSeq([i \in 1..Len(ws) |-> IF \E k \in 1..(i - 1) : ws[k] = ws[i] THEN << >> ELSE ws[i]],
              LAMBDA w : w # << >>)

Reverse(s) == [i \in 1..Len(s) |-> s[Len(s) + 1 - i]]

NamesIn(t) == DistinctInOrder(SelectSeq(WordsOf(t), IsName))

EmailsIn(t) == DistinctInOrder(SelectSeq(WordsOf(t), IsEmail))

\* The text is a name of several words and nothing else.
IsFullName(t) ==
    /\ Len(WordsOf(t)) >= 2
    /\ Join(WordsOf(t), <<" ">>) = t
    /\ \A i \in 1..Len(WordsOf(t)) : IsName(WordsOf(t)[i])

\* 'moodle', which a backend may take for an organization
MOODLE == <<"m", "o", "o", "d", "l", "e">>

\* What backend.detect_pii may return for a text: nothing (no detection, or
\* the backend failed), the names in the order of the text or in the reverse
\* order, the first of several names alone, a name of several words as one
\* person, an organization, the e-mail addresses before the names, or a URL.
BackendResults(t) ==
    {EmptyDict}
    \cup (IF NamesIn(t) = << >> THEN {}
          ELSE {<< <<PERSONS, NamesIn(t)>> >>, << <<PERSONS, Reverse(NamesIn(t))>> >>,
                << <<PERSONS, <<NamesIn(t)[1]>> >> >>})
    \cup (IF IsFullName(t) THEN {<< <<PERSONS, <<t>> >> >>} ELSE {})
    \cup (IF Contains(t, MOODLE) THEN {<< <<ORGANIZATIONS, <<MOODLE>> >> >>} ELSE {})
    \cup (IF EmailsIn(t) = << >> THEN {}
          ELSE {<< <<EMAILS, EmailsIn(t)>>, <<PERSONS, NamesIn(t)>> >>})
    \cup (IF Url \in Range(WordsOf(t)) THEN {<< <<URLS, <<Url>> >> >>} ELSE {})

\* What a generating model may also return for a text: an abbreviation in
\* capitals as an organization, an entity that is the empty string.
OddResults(t) ==
    (IF ED \in Range(WordsOf(t)) THEN {<< <<ORGANIZATIONS, <<ED>> >> >>} ELSE {})
    \cup (IF t # << >> THEN {<< <<PERSONS, << << >> >> >> >>} ELSE {})

\* ---------------------------------------------------- DirectoryAnonymizer

\* self.anonymizer.anonymize_data(t): the results for whatever the backend
\* may detect in t.
AnonymizeAny(t, memory, counters) ==
    UNION {anonymize_data(t, llm, memory, counters) : llm \in BackendResults(t)}

\* anonymize_moodle_submission(filename) on the registry (memory, counters):
\* the results [name, mappings, memory, counters] it can return.
anonymize_moodle_submission(filename, memory, counters) ==
    LET g == MoodleGroups(filename)
        rebuilt(n) == Strip(n) \o <<"_">> \o g.id_part \o <<"_">> \o g.suffix_part
    IN  {IF r.text = g.name_part
         THEN LET known == g.name_part \in DOMAIN r.memory
                  counters2 == IF known THEN r.counters
                               ELSE [r.counters EXCEPT ![PERSON] = @ + 1]
                  tag == IF known THEN r.memory[g.name_part]
                         ELSE Token(PERSON, counters2[PERSON])
              IN  [name |-> rebuilt(tag),
                   mappings |-> <<<<tag, g.name_part>>>>,
                   memory |-> IF known THEN r.memory ELSE (g.name_part :> tag) @@ r.memory,
                   counters |-> counters2]
         ELSE [name |-> rebuilt(r.text), mappings |-> r.mappings,
               memory |-> r.memory, counters |-> r.counters] :
            r \in AnonymizeAny(g.name_part, memory, counters)}

\* An anonymize_filename without its special case.
IsGradesFileNever(filename) == FALSE

\* "Special case: Never redact moodle_grades.csv"
IsGradesFile(filename) == filename = GRADES_CSV

\* anonymize_filename(filename, is_directory)
anonymize_filename(filename, is_directory, memory, counters) ==
    IF IsGradesFile(filename)
    THEN {[name |-> filename, mappings |-> EmptyDict, memory |-> memory,
           counters |-> counters]}
    ELSE IF is_moodle_submission(filename)
    THEN anonymize_moodle_submission(filename, memory, counters)
    ELSE LET split == ~is_directory /\ Suffix(filename) # << >>
             ext == IF split THEN Suffixes(filename) ELSE << >>
             base_name == IF split THEN Replace(filename, ext, << >>) ELSE filename
         IN  {[name |-> Strip(r.text) \o ext, mappings |-> r.mappings,
               memory |-> r.memory, counters |-> r.counters] :
                r \in AnonymizeAny(base_name, memory, counters)}

\* The loop of anonymize_file_path over parent_path.parts: st is
\* [current_path, anonymized_parts, path_cache, mappings, memory, counters].
RECURSIVE ParentParts(_, _)
ParentParts(st, parts) ==
    IF parts = << >> THEN {st}
    ELSE LET current_path == IF st.current_path = << >> THEN parts[1]
                             ELSE st.current_path \o <<"/">> \o parts[1]
         IN  IF current_path \in DOMAIN st.path_cache
             THEN ParentParts([st EXCEPT !.current_path = current_path,
                                         !.anonymized_parts = st.path_cache[current_path]],
                              Tail(parts))
             ELSE UNION {
                    LET anonymized_parts == Append(st.anonymized_parts, r.name)
                    IN  ParentParts([current_path |-> current_path,
                                     anonymized_parts |-> anonymized_parts,
                                     path_cache |-> (current_path :> anonymized_parts)
                                                      @@ st.path_cache,
                                     mappings |-> DictUpdate(st.mappings, r.mappings),
                                     memory |-> r.memory,
                                     counters |-> r.counters],
                                    Tail(parts)) :
                    r \in anonymize_filename(parts[1], TRUE, st.memory, st.counters)}

\* anonymize_file_path(file_path, rel_path) of a file: the results
\* [out_rel_path, path_cache, mappings, memory, counters] it can leave.
anonymize_file_path(rel_path, cache, unified, memory, counters) ==
    LET parent == SubSeq(rel_path, 1, Len(rel_path) - 1)
        last_part == rel_path[Len(rel_path)]
        parents == ParentParts([current_path |-> << >>, anonymized_parts |-> << >>,
                                path_cache |-> cache, mappings |-> unified,
                                memory |-> memory, counters |-> counters], parent)
    IN  UNION {
          {LET out_rel_path == Append(st.anonymized_parts, r.name)
           IN  [out_rel_path |-> out_rel_path,
                path_cache |-> [k \in DOMAIN st.path_cache \cup {PathStr(rel_path)} |->
                                  IF k = PathStr(rel_path) THEN out_rel_path
                                  ELSE st.path_cache[k]],
                mappings |-> DictUpdate(st.mappings, r.mappings),
                memory |-> r.memory,
                counters |-> r.counters] :
              r \in anonymize_filename(last_part, FALSE, st.memory, st.counters)} :
          st \in parents}

\* self.moodle_grades_handler is None
None == << >>

\* anonymize_file_content(file_path) of a readable file with this content:
\* the results [content, mappings, memory, counters, handler] it can return.
anonymize_file_content(rel_path, content, memory, counters, handler) ==
    IF rel_path[Len(rel_path)] = GRADES_CSV
    THEN LET g == anonymize_moodle_grades(IF handler = None THEN NewHandler
                                          ELSE handler[1], ReadText(content))
         IN  {[content |-> g.content, mappings |-> g.mappings, memory |-> memory,
               counters |-> counters, handler |-> <<g.handler>>]}
    ELSE {[content |-> r.text, mappings |-> r.mappings, memory |-> r.memory,
           counters |-> r.counters, handler |-> handler] :
             r \in AnonymizeAny(ReadText(content), memory, counters)}

\* The handler after anonymize_file_content failed to open the file.
HandlerAfterOpenFailed(rel_path, handler) ==
    IF rel_path[Len(rel_path)] = GRADES_CSV /\ handler = None THEN <<NewHandler>>
    ELSE handler

\* str(input_path)
input_path == <<"/", "i", "n">>

\* str(file_path)
FileStr(rel_path) == input_path \o <<"/">> \o PathStr(rel_path)

\* str(e) of the error open() raises on an unreadable file
PermissionDenied(rel_path) ==
    <<"P", "e", "r", "m", "i", "s", "s", "i", "o", "n", " ",
      "d", "e", "n", "i", "e", "d", ":", " ">> \o FileStr(rel_path)

\* An except clause that records the error and leaves skipped_files alone.
record_error_uncounted(statistics, rel_path, e) ==
    [statistics EXCEPT !.errors = Append(@, [file |-> FileStr(rel_path), error |-> e])]

\* The except clause of process_directory
record_error(statistics, rel_path, e) ==
    [statistics EXCEPT !.errors = Append(@, [file |-> FileStr(rel_path), error |-> e]),
                       !.skipped_files = @ + 1]

\* The name of the mapping file
mapping_filename ==
    <<"a", "n", "o", "n", "y", "m", "i", "z", "a", "t", "i", "o", "n", "_",
      "m", "a", "p", "p", "i", "n", "g", ".", "j", "s", "o", "n">>

\* The loop of restore_directory over unified_mappings.items(), on a path
\* or on a content
RestoreString(s, unified) == ReplaceEach(s, unified)

\* ------------------------------------------------------------ text_chunker

\* s.split(): the words between runs of spaces and newlines
Split(s) == WordsOf(Replace(s, <<"\n">>, <<" ">>))

\* The token counters handed to chunk_text: the words of the text, the
\* backend's estimate int(word_count * 1.5), and one token per character.
Counters == {"words", "estimate", "characters"}

count_tokens(counter, s) ==
    CASE counter = "words" -> Len(Split(s))
      [] counter = "estimate" -> (Len(Split(s)) * 3) \div 2
      [] counter = "characters" -> Len(s)

\* a // b for b # 0
FloorDiv(a, b) == IF b > 0 THEN a \div b ELSE (0 - a) \div (0 - b)

Max(a, b) == IF a >= b THEN a ELSE b

StartsWith(s, prefix) ==
    Len(prefix) <= Len(s) /\ SubSeq(s, 1, Len(prefix)) = prefix

\* _format_chunk(lines, previous_words)
_format_chunk(lines, previous_words) ==
    LET own == Join(lines, <<"\n">>)
        lookback_text == Join(previous_words, <<" ">>)
    IN  IF previous_words # << >> /\ ~StartsWith(own, lookback_text)
        THEN lookback_text \o <<"\n">> \o own
        ELSE own

\* words[-num_words:] when there are more than num_words words, else words
LastWords(words, num_words) ==
    IF Len(words) <= num_words \/ num_words = 0 THEN words
    ELSE SubSeq(words, Len(words) - num_words + 1, Len(words))

\* _get_last_words(text, num_words)
_get_last_words(s, num_words) == LastWords(Split(s), num_words)

\* A chunk as yielded, with the lines it was made of.
Yielded(lines, previous_words) ==
    [chunk |-> _format_chunk(lines, previous_words), own |-> lines]

\* The flush of the accumulated lines: st is the generator's state
\* [current_chunk_lines, current_tokens, previous_words, chunks].
Flush(st, lookback_words) ==
    [current_chunk_lines |-> << >>,
     current_tokens |-> 0,
     previous_words |-> _get_last_words(Join(st.current_chunk_lines, <<"\n">>),
                                        lookback_words),
     chunks |-> Append(st.chunks, Yielded(st.current_chunk_lines, st.previous_words))]

\* The loop over range(0, len(words), words_per_chunk), from word i + 1 on
RECURSIVE Fragments(_, _, _, _, _)
Fragments(st, words, i, words_per_chunk, lookback_words) ==
    IF i >= Len(words) THEN st
    ELSE LET last == IF i + words_per_chunk <= Len(words) THEN i + words_per_chunk
                     ELSE Len(words)
             fragment_words == SubSeq(words, i + 1, last)
             fragment == Join(fragment_words, <<" ">>)
         IN  Fragments([st EXCEPT !.chunks = Append(@, Yielded(<<fragment>>,
                                                               st.previous_words)),
                                  !.previous_words = LastWords(fragment_words,
                                                               lookback_words)],
                       words, i + words_per_chunk, words_per_chunk, lookback_words)

\* The branch for a line longer than max_tokens, after the flush
LongLine(st, line, line_tokens, max_tokens, lookback_words) ==
    LET words == Split(line)
        chunks_needed == Max(1, FloorDiv(line_tokens + max_tokens - 1, max_tokens))
        words_per_chunk == Max(1, Len(words) \div chunks_needed)
    IN  IF words = << >> THEN st
        ELSE Fragments(st, words, 0, words_per_chunk, lookback_words)

\* One turn of the loop over lines
ChunkLine(st, line, counter, max_tokens, lookback_words) ==
    LET line_tokens == count_tokens(counter, line)
    IN  IF line_tokens > max_tokens
        THEN LongLine(IF st.current_chunk_lines # << >> THEN Flush(st, lookback_words)
                      ELSE st,
                      line, line_tokens, max_tokens, lookback_words)
        ELSE IF st.current_tokens + line_tokens > max_tokens
                /\ st.current_chunk_lines # << >>
        THEN [Flush(st, lookback_words) EXCEPT !.current_chunk_lines = <<line>>,
                                               !.current_tokens = line_tokens]
        ELSE [st EXCEPT !.current_chunk_lines = Append(@, line),
                        !.current_tokens = @ + line_tokens]

\* Whether the turn divides by zero: a line of more than max_tokens = 0
\* tokens that has words
DividesByZero(line, counter, max_tokens) ==
    max_tokens = 0 /\ count_tokens(counter, line) > 0 /\ Split(line) # << >>

\* A generator that ends without yielding the lines it still holds.
remaining_lines_dropped(st) == st.chunks

\* The chunks after the loop: "Yield any remaining lines"
remaining_lines(st) ==
    IF st.current_chunk_lines # << >>
    THEN Append(st.chunks, Yielded(st.current_chunk_lines, st.previous_words))
    ELSE st.chunks

\* ------------------------------------------------------------------ state

VARIABLES
    entity_counters,   \* LocalAnonymizer.entity_counters
    entity_memory,     \* LocalAnonymizer.entity_memory: original -> token
    text,              \* the argument of the last anonymize_data call
    llm_pii,           \* what the backend detected in it
    pii_data,          \* the merged detection the call substituted
    anonymized_text,   \* the text it returned
    mappings,          \* the mapping it returned: token -> original
    restored,          \* what deanonymize returned for them
    op,                \* the last operation
    calls,             \* anonymize_data calls since the last reset()
    fresh,             \* the last call started with an empty registry
    after_reset,       \* a reset() has cleared a non-empty registry
    substituted,       \* <<original, token>> pairs substituted since the last reset()
    repeats,           \* originals the last call substituted that an earlier call
                       \* of the session had substituted too
    runs               \* two runs on one input, each on a fresh registry

VARIABLES
    input_files,            \* the input tree: relative path -> [content, readable]
    output_exists,          \* the output directory exists
    restored_exists,        \* the directory restore_directory writes to exists
    files_to_process,       \* process_directory's list, relative paths
    next_file,              \* the place of its loop in the list
    path_cache,             \* DirectoryAnonymizer.path_cache
    all_mappings,           \* DirectoryAnonymizer.all_mappings
    moodle_grades_handler,  \* DirectoryAnonymizer.moodle_grades_handler
    output_files,           \* the output tree: relative path -> content
    mapping_file,           \* what the mapping file holds, None before it is written
    history,                \* what happened to each file of the list so far
    deanonymizer_mappings,  \* DirectoryDeanonymizer.mappings
    to_restore,             \* restore_directory's files not yet visited
    stats,                  \* restore_directory's statistics
    restored_files,         \* the restored tree: path string -> content
    pc                      \* the position of the directory run

VARIABLES
    chunker                 \* a chunk_text generator: its arguments, locals and
                            \* the chunks yielded so far

VARIABLES
    merging                 \* a merge of detections: the detections merged, the
                            \* result, and the result merged with itself

VARIABLES
    backend                 \* the detector of the LocalAnonymizer: its class, the
                            \* answer of its model in the last call, what
                            \* detect_pii and anonymize_data did with it

call == <<text, llm_pii, pii_data, anonymized_text, mappings, restored, op, calls,
          fresh, after_reset, substituted, repeats>>

directory == <<input_files, output_exists, files_to_process, next_file, path_cache, all_mappings,
               moodle_grades_handler, output_files, mapping_file, history,
               deanonymizer_mappings, to_restore, stats, restored_files,
               restored_exists, pc>>

vars == <<entity_counters, entity_memory, call, runs, directory, chunker, merging, backend>>

NotRestored == <<"none">>

NotRun ==
    [done |-> FALSE, regex |-> EmptyDict, text |-> << >>, mappings |-> EmptyDict,
     memory |-> EmptyDict]

NoRuns == [text |-> << >>, llm |-> EmptyDict, a |-> NotRun, b |-> NotRun]

\* chunk_text(text, count_tokens, max_tokens, lookback_words) up to its loop
NewChunker(s, counter, max_tokens, lookback_words) ==
    [text |-> s, count_tokens |-> counter, max_tokens |-> max_tokens,
     lookback_words |-> lookback_words,
     lines |-> SplitOn(s, "\n"), line_no |-> 1,
     current_chunk_lines |-> << >>, current_tokens |-> 0, previous_words |-> << >>,
     chunks |-> << >>, pc |-> "lines"]

\* No generator.
NoChunker == [NewChunker(<< >>, "words", 1, 0) EXCEPT !.lines = << >>, !.pc = "none"]

\* Two detections to merge, nothing merged yet.
NewMerging(first, second) ==
    [results |-> <<first, second>>, merged |-> EmptyDict, by |-> "none",
     again |-> EmptyDict, again_by |-> "none", pc |-> "new"]

\* No merge.
NoMerging == [NewMerging(EmptyDict, EmptyDict) EXCEPT !.pc = "none"]

\* A backend of this class, no call made.
NewBackend(class) ==
    [class |-> class, answer |-> "none", returned |-> EmptyDict, raised |-> FALSE]

\* No backend in use.
NoBackend == NewBackend("none")

\* DirectoryAnonymizer.__init__: self.all_mappings
NewMappings ==
    [mappings |-> EmptyDict,
     statistics |-> [total_files |-> 0, processed_files |-> 0, skipped_files |-> 0,
                     errors |-> << >>]]

\* restore_directory: stats
NewStats == [total_files |-> 0, restored_files |-> 0, errors |-> << >>]

\* A new LocalAnonymizer and no call made.
InitSession ==
    /\ entity_counters = ZeroCounters
    /\ entity_memory = EmptyDict
    /\ text = << >>
    /\ llm_pii = EmptyDict
    /\ pii_data = EmptyDict
    /\ anonymized_text = << >>
    /\ mappings = EmptyDict
    /\ restored = NotRestored
    /\ op = "init"
    /\ calls = 0
    /\ fresh = TRUE
    /\ after_reset = FALSE
    /\ substituted = {}
    /\ repeats = {}

\* A new DirectoryAnonymizer on the input tree: nothing processed, nothing
\* written.
NewDirectoryAnonymizer(tree) ==
    /\ input_files = tree
    /\ files_to_process = << >>
    /\ next_file = 1
    /\ path_cache = EmptyDict
    /\ all_mappings = NewMappings
    /\ moodle_grades_handler = None
    /\ output_files = EmptyDict
    /\ mapping_file = None
    /\ history = << >>
    /\ deanonymizer_mappings = None
    /\ to_restore = {}
    /\ stats = NewStats
    /\ restored_files = EmptyDict
    /\ pc = "new"

Init ==
    /\ InitSession
    /\ runs = NoRuns
    /\ NewDirectoryAnonymizer(EmptyDict)
    /\ output_exists = FALSE
    /\ restored_exists = FALSE
    /\ chunker = NoChunker
    /\ merging = NoMerging
    /\ backend = NoBackend

IsFresh(memory, counters) == memory = EmptyDict /\ counters = ZeroCounters

\* anonymizer.anonymize_data(t), the backend returning llm
AnonymizeData(t, llm) ==
    /\ calls < MaxCalls
    /\ \E r \in anonymize_data(t, llm, entity_memory, entity_counters) :
          /\ entity_memory' = r.memory
          /\ entity_counters' = r.counters
          /\ text' = t
          /\ llm_pii' = llm
          /\ pii_data' = r.pii
          /\ anonymized_text' = r.text
          /\ mappings' = r.mappings
          /\ substituted' = substituted \cup {<<r.mappings[i][2], r.mappings[i][1]>> :
                                                i \in 1..Len(r.mappings)}
          /\ repeats' = {e \in Values(r.mappings) : \E p \in substituted : p[1] = e}
    /\ restored' = NotRestored
    /\ op' = "anonymize"
    /\ calls' = calls + 1
    /\ fresh' = IsFresh(entity_memory, entity_counters)
    /\ UNCHANGED <<after_reset, runs, directory, chunker, merging, backend>>

\* The names handed to anonymize_filename, each with is_directory.
FileNames ==
    {<<GRADES_CSV, FALSE>>,
     <<Student(1) \o <<"_", "1", "_">> \o ASSIGNSUBMISSION_ \o <<"f", "i", "l", "e">>, TRUE>>,
     <<Name(1) \o <<".", "m", "d">>, FALSE>>}

\* DirectoryAnonymizer.anonymize_filename(filename, is_directory), the
\* directory anonymizer's LocalAnonymizer being the session's
AnonymizeFilename(filename, is_directory) ==
    /\ calls < MaxCalls
    /\ \E r \in anonymize_filename(filename, is_directory, entity_memory, entity_counters) :
          /\ entity_memory' = r.memory
          /\ entity_counters' = r.counters
          /\ text' = filename
          /\ anonymized_text' = r.name
          /\ mappings' = r.mappings
          /\ substituted' = substituted \cup {<<r.mappings[i][2], r.mappings[i][1]>> :
                                                i \in 1..Len(r.mappings)}
          /\ repeats' = {e \in Values(r.mappings) : \E p \in substituted : p[1] = e}
    /\ restored' = NotRestored
    /\ op' = "filename"
    /\ calls' = calls + 1
    /\ fresh' = IsFresh(entity_memory, entity_counters)
    /\ UNCHANGED <<llm_pii, pii_data, after_reset, runs, directory, chunker, merging, backend>>

\* A reset() that clears the memory and keeps the counters.
reset_counters_kept(counters) == counters

\* The counters reset() installs.
reset_counters(counters) == ZeroCounters

\* The memory reset() installs.
reset_memory(memory) == EmptyDict

\* anonymizer.reset()
Reset ==
    /\ entity_counters' = reset_counters(entity_counters)
    /\ entity_memory' = reset_memory(entity_memory)
    /\ op' = "reset"
    /\ calls' = 0
    /\ after_reset' = (after_reset \/ ~IsFresh(entity_memory, entity_counters))
    /\ substituted' = {}
    /\ repeats' = {}
    /\ UNCHANGED <<text, llm_pii, pii_data, anonymized_text, mappings, restored, fresh,
                   runs, directory, chunker, merging, backend>>

\* deanonymizer.deanonymize(anonymized_text, mappings) on the last call's result
Deanonymize ==
    /\ op = "anonymize"
    /\ restored' = deanonymize(anonymized_text, mappings)
    /\ op' = "deanonymize"
    /\ UNCHANGED <<entity_counters, entity_memory, text, llm_pii, pii_data,
                   anonymized_text, mappings, calls, fresh, after_reset, substituted,
                   repeats, runs, directory, chunker, merging, backend>>

Next ==
    \/ \E t \in Texts : \E llm \in BackendResults(t) \cup OddResults(t) :
          AnonymizeData(t, llm)
    \/ \E f \in FileNames : AnonymizeFilename(f[1], f[2])
    \/ Reset
    \/ Deanonymize

Spec == Init /\ [][Next]_vars

\* ------------------------------------------------------ two runs, one input

session == <<entity_counters, entity_memory, call, directory, chunker, merging, backend>>

\* The texts of the two-run comparison.
RunTexts == Texts \cup {Join(<<Email(3), Email(1), Email(2)>>, <<" ">>)}

InitRuns ==
    /\ InitSession
    /\ NewDirectoryAnonymizer(EmptyDict)
    /\ output_exists = FALSE
    /\ restored_exists = FALSE
    /\ chunker = NoChunker
    /\ merging = NoMerging
    /\ backend = NoBackend
    /\ \E t \in RunTexts : \E llm \in BackendResults(t) :
          runs = [text |-> t, llm |-> llm, a |-> NotRun, b |-> NotRun]

\* What a run keeps: the regex result, the text and mapping returned, and
\* the registry's memory.
RunOutcome(r) ==
    [done |-> TRUE, regex |-> r.regex, text |-> r.text, mappings |-> r.mappings,
     memory |-> r.memory]

\* The first run: a new LocalAnonymizer, anonymize_data(runs.text)
RunA ==
    /\ ~runs.a.done
    /\ \E r \in anonymize_data(runs.text, runs.llm, EmptyDict, ZeroCounters) :
          runs' = [runs EXCEPT !.a = RunOutcome(r)]
    /\ UNCHANGED session

\* The second run: another new LocalAnonymizer, the same call
RunB ==
    /\ ~runs.b.done
    /\ \E r \in anonymize_data(runs.text, runs.llm, EmptyDict, ZeroCounters) :
          runs' = [runs EXCEPT !.b = RunOutcome(r)]
    /\ UNCHANGED session

NextRuns == RunA \/ RunB

SpecRuns == InitRuns /\ [][NextRuns]_vars

\* C9: deterministic tag assignment. Two runs on the same text, each on a
\* fresh registry, with the same backend detection and the same regex
\* detection, leave the same original -> token assignment and return the
\* same text.
C9_Deterministic ==
    (runs.a.done /\ runs.b.done /\ runs.a.regex = runs.b.regex) =>
        runs.a.memory = runs.b.memory /\ runs.a.text = runs.b.text

\* ------------------------------------------------------- a directory run

\* moodle_grades.csv with the students in the order given
GradesFile(order) ==
    Join(<<Join(<<FULL_NAME, EMAIL_ADDRESS>>, <<",">>)>>
         \o [i \in 1..Len(order) |->
               Join(<<Student(order[i]), StudentEmail(order[i])>>, <<",">>)]
         \o << << >> >>,
         <<"\n">>)

GradesFiles == {GradesFile(<<1, 2>>), GradesFile(<<2, 1>>)}

\* '<student>_<id>_assignsubmission_file/main.py'
Submission(i) ==
    <<Student(i) \o <<"_">> \o Str(i) \o <<"_">> \o ASSIGNSUBMISSION_ \o <<"f", "i", "l", "e">>,
      <<"m", "a", "i", "n", ".", "p", "y">>>>

\* 'notes.md'
Notes == <<<<"n", "o", "t", "e", "s", ".", "m", "d">>>>

\* 'logo.png'
Logo == <<<<"l", "o", "g", "o", ".", "p", "n", "g">>>>

\* '<first name> <last name>_3_assignsubmission_file/main.py'
FullNameSubmission ==
    <<Student(1) \o <<" ">> \o Student(2) \o <<"_", "3", "_">> \o ASSIGNSUBMISSION_
        \o <<"f", "i", "l", "e">>,
      <<"m", "a", "i", "n", ".", "p", "y">>>>

\* 'x.py'
X_PY == <<"x", ".", "p", "y">>

\* '<student>/x.py': a file in a directory that bears a name
InNamedDir == <<Student(1), X_PY>>

\* 'z/<student>/x.py': a directory of the same name, deeper and under
\* another parent
InDeeperNamedDir == <<<<"z">>, Student(1), X_PY>>

\* '<student>/z/x.py': a second file below the directory of InNamedDir
BelowNamedDir == <<Student(1), <<"z">>, X_PY>>

\* The files an input tree is made of, with their contents.
SourceFiles ==
    (Submission(1) :> Student(1)) @@ (Submission(2) :> Student(2))
    @@ (FullNameSubmission :> Student(1))
    @@ (Notes :> Student(2)) @@ (Logo :> Student(1))
    @@ (InNamedDir :> << >>) @@ (InDeeperNamedDir :> << >>)
    @@ (BelowNamedDir :> << >>)

\* The files of a Moodle download, and those of a tree of nested directories.
Pools ==
    {{Submission(1), Submission(2), FullNameSubmission, Notes, Logo},
     {Notes, InNamedDir, InDeeperNamedDir, BelowNamedDir}}

\* The input trees: up to MaxFiles of the files of a pool, with or without a
\* grades file at the root, at most one file unreadable.
Trees ==
    UNION {UNION {{[p \in S \cup G |->
                     [content |-> IF p \in G THEN g ELSE SourceFiles[p],
                      readable |-> p # u]] :
                    g \in GradesFiles, u \in S \cup G \cup {<< >>}} :
                  G \in {{}, {<<GRADES_CSV>>}}} :
           S \in UNION {{F \in SUBSET pool : Cardinality(F) <= MaxFiles} :
                        pool \in Pools}}

InitDir ==
    /\ InitSession
    /\ runs = NoRuns
    /\ \E tree \in Trees : NewDirectoryAnonymizer(tree)
    /\ output_exists \in BOOLEAN
    /\ restored_exists = FALSE
    /\ chunker = NoChunker
    /\ merging = NoMerging
    /\ backend = NoBackend

\* The text json.dump writes to the mapping file; its characters are not
\* spelled out, mapping_file holds what it says.
MappingText == <<"{", "}">>

\* process_directory, up to its loop: gather_files_to_process, total_files
GatherFiles ==
    /\ pc = "new"
    /\ files_to_process' = gather_files_to_process(DOMAIN input_files)
    /\ all_mappings' = [all_mappings EXCEPT !.statistics.total_files =
                                                 Len(files_to_process')]
    /\ pc' = "processing"
    /\ UNCHANGED <<entity_counters, entity_memory, call, runs, chunker, merging, backend, input_files,
                   output_exists, next_file,
                   path_cache, moodle_grades_handler, output_files, mapping_file,
                   history, deanonymizer_mappings, to_restore, stats, restored_files, restored_exists>>

\* One turn of the loop in which anonymize_one_file returns
AnonymizeOneFile ==
    /\ pc = "processing"
    /\ next_file <= Len(files_to_process)
    /\ LET rel_path == files_to_process[next_file]
       IN  /\ input_files[rel_path].readable
           /\ \E p \in anonymize_file_path(rel_path, path_cache, all_mappings.mappings,
                                           entity_memory, entity_counters) :
              \E c \in anonymize_file_content(rel_path, input_files[rel_path].content,
                                              p.memory, p.counters,
                                              moodle_grades_handler) :
                 /\ path_cache' = p.path_cache
                 /\ entity_memory' = c.memory
                 /\ entity_counters' = c.counters
                 /\ moodle_grades_handler' = c.handler
                 /\ output_files' = [k \in DOMAIN output_files \cup {p.out_rel_path} |->
                                       IF k = p.out_rel_path THEN c.content
                                       ELSE output_files[k]]
                 /\ all_mappings' =
                      [mappings |-> DictUpdate(p.mappings, c.mappings),
                       statistics |-> [all_mappings.statistics EXCEPT
                                         !.processed_files = @ + 1]]
                 /\ history' = Append(history, [file |-> rel_path, raised |-> FALSE,
                                                error |-> << >>,
                                                out |-> p.out_rel_path])
    /\ next_file' = next_file + 1
    /\ output_exists' = TRUE
    /\ UNCHANGED <<call, runs, chunker, merging, backend, input_files, files_to_process, mapping_file,
                   deanonymizer_mappings, to_restore, stats, restored_files, restored_exists, pc>>

\* One turn of the loop in which anonymize_one_file raises: the file cannot
\* be opened, after its output path has been computed.
AnonymizeOneFileRaises ==
    /\ pc = "processing"
    /\ next_file <= Len(files_to_process)
    /\ LET rel_path == files_to_process[next_file]
           e == PermissionDenied(rel_path)
       IN  /\ ~input_files[rel_path].readable
           /\ \E p \in anonymize_file_path(rel_path, path_cache, all_mappings.mappings,
                                           entity_memory, entity_counters) :
                 /\ path_cache' = p.path_cache
                 /\ entity_memory' = p.memory
                 /\ entity_counters' = p.counters
                 /\ all_mappings' =
                      [mappings |-> p.mappings,
                       statistics |-> record_error(all_mappings.statistics, rel_path, e)]
                 /\ history' = Append(history, [file |-> rel_path, raised |-> TRUE,
                                                error |-> e, out |-> p.out_rel_path])
           /\ moodle_grades_handler' = HandlerAfterOpenFailed(rel_path,
                                                              moodle_grades_handler)
    /\ next_file' = next_file + 1
    /\ output_exists' = TRUE
    /\ UNCHANGED <<call, runs, chunker, merging, backend, input_files, files_to_process, output_files, mapping_file,
                   deanonymizer_mappings, to_restore, stats, restored_files, restored_exists, pc>>

\* process_directory, after its loop: the mapping file is written
SaveMapping ==
    /\ pc = "processing"
    /\ next_file > Len(files_to_process)
    /\ output_exists
    /\ mapping_file' = <<all_mappings>>
    /\ output_files' = [k \in DOMAIN output_files \cup {<<mapping_filename>>} |->
                          IF k = <<mapping_filename>> THEN MappingText
                          ELSE output_files[k]]
    /\ pc' = "saved"
    /\ UNCHANGED <<entity_counters, entity_memory, call, runs, chunker, merging, backend, input_files,
                   output_exists,
                   files_to_process, next_file, path_cache, all_mappings,
                   moodle_grades_handler, history, deanonymizer_mappings, to_restore,
                   stats, restored_files, restored_exists>>

\* process_directory, after its loop, the output directory missing: open()
\* of the mapping file raises and process_directory with it
SaveMappingRaises ==
    /\ pc = "processing"
    /\ next_file > Len(files_to_process)
    /\ ~output_exists
    /\ pc' = "raised"
    /\ UNCHANGED <<entity_counters, entity_memory, call, runs, chunker, merging, backend, input_files,
                   output_exists, files_to_process, next_file, path_cache,
                   all_mappings, moodle_grades_handler, output_files, mapping_file,
                   history, deanonymizer_mappings, to_restore, stats, restored_files, restored_exists>>

\* A constructor that does not look for the file.
MappingFileExistsAlways(file) == TRUE

\* self.mapping_file.exists()
MappingFileExists(file) == file # None

\* DirectoryDeanonymizer(mapping_file) on the mapping file of the run, which
\* is there once the run has written it
NewDeanonymizer ==
    /\ pc \in {"processing", "saved", "raised"}
    /\ MappingFileExists(mapping_file)
    /\ deanonymizer_mappings' = mapping_file
    /\ pc' = "loaded"
    /\ UNCHANGED <<entity_counters, entity_memory, call, runs, chunker, merging, backend, input_files,
                   output_exists,
                   files_to_process, next_file, path_cache, all_mappings,
                   moodle_grades_handler, output_files, mapping_file, history,
                   to_restore, stats, restored_files, restored_exists>>

\* DirectoryDeanonymizer(mapping_file) while the run has not written its
\* mapping file (it is under way, was given up between two files, or has
\* raised): ValueError, no deanonymizer is made
NewDeanonymizerRaises ==
    /\ pc \in {"processing", "saved", "raised"}
    /\ ~MappingFileExists(mapping_file)
    /\ pc' = "no_mapping"
    /\ UNCHANGED <<entity_counters, entity_memory, call, runs, chunker, merging, backend, input_files,
                   output_exists,
                   files_to_process, next_file, path_cache, all_mappings,
                   moodle_grades_handler, output_files, mapping_file, history,
                   deanonymizer_mappings, to_restore, stats, restored_files, restored_exists>>

\* str(e) of the error open() raises on a file of the anonymized tree, or
\* on the restored file
NotPermitted(rel_path) ==
    <<"P", "e", "r", "m", "i", "s", "s", "i", "o", "n", " ",
      "d", "e", "n", "i", "e", "d", ":", " ">> \o PathStr(rel_path)

\* An except clause that logs the error and records nothing.
restore_error_dropped(statistics, file_path, e) == statistics

\* The except clause of the loop of restore_directory
restore_error(statistics, file_path, e) ==
    [statistics EXCEPT !.errors = Append(@, [file |-> PathStr(file_path), error |-> e])]

\* restore_directory, up to its loop: the walk over the anonymized tree. The
\* caller's output_dir is a new one.
RestoreWalk ==
    /\ pc = "loaded"
    /\ to_restore' = DOMAIN output_files
    /\ stats' = [NewStats EXCEPT !.total_files = Cardinality(DOMAIN output_files)]
    /\ restored_exists' = FALSE
    /\ pc' = "restoring"
    /\ UNCHANGED <<entity_counters, entity_memory, call, runs, chunker, merging, backend, input_files,
                   output_exists,
                   files_to_process, next_file, path_cache, all_mappings,
                   moodle_grades_handler, output_files, mapping_file, history,
                   deanonymizer_mappings, restored_files>>

\* One turn of the loop of restore_directory, on any file of the walk
RestoreOneFile ==
    /\ pc = "restoring"
    /\ \E rel_path \in to_restore :
          LET unified_mappings == deanonymizer_mappings[1].mappings
              original_path_str == RestoreString(PathStr(rel_path), unified_mappings)
              restored_content == RestoreString(ReadText(output_files[rel_path]),
                                                unified_mappings)
          IN  /\ restored_files' =
                   [k \in DOMAIN restored_files \cup {original_path_str} |->
                      IF k = original_path_str THEN restored_content
                      ELSE restored_files[k]]
              /\ to_restore' = to_restore \ {rel_path}
    /\ stats' = [stats EXCEPT !.restored_files = @ + 1]
    /\ restored_exists' = TRUE
    /\ UNCHANGED <<entity_counters, entity_memory, call, runs, chunker, merging, backend, input_files,
                   output_exists,
                   files_to_process, next_file, path_cache, all_mappings,
                   moodle_grades_handler, output_files, mapping_file, history,
                   deanonymizer_mappings, pc>>

\* One turn of the loop of restore_directory in which an open() raises: on
\* the anonymized file, before anything is made for it, or on the restored
\* file, after the mkdir of its parent. At most one file of a restore raises,
\* as at most one file of an input tree is unreadable.
RestoreOneFileRaises ==
    /\ pc = "restoring"
    /\ stats.errors = << >>
    /\ \E rel_path \in to_restore, failed \in {"read", "write"} :
          /\ stats' = restore_error(stats, rel_path, NotPermitted(rel_path))
          /\ to_restore' = to_restore \ {rel_path}
          /\ restored_exists' = (restored_exists \/ failed = "write")
    /\ UNCHANGED <<entity_counters, entity_memory, call, runs, chunker, merging, backend, input_files,
                   output_exists,
                   files_to_process, next_file, path_cache, all_mappings,
                   moodle_grades_handler, output_files, mapping_file, history,
                   deanonymizer_mappings, restored_files, pc>>

\* restore_directory, after its loop: the report is written into the
\* output directory and the statistics are returned
RestoreReport ==
    /\ pc = "restoring"
    /\ to_restore = {}
    /\ restored_exists
    /\ pc' = "restored"
    /\ UNCHANGED <<entity_counters, entity_memory, call, runs, chunker, merging, backend, input_files,
                   output_exists,
                   files_to_process, next_file, path_cache, all_mappings,
                   moodle_grades_handler, output_files, mapping_file, history,
                   deanonymizer_mappings, to_restore, stats, restored_files, restored_exists>>

\* restore_directory, after its loop, no output directory being there: the
\* open() of the report raises FileNotFoundError
RestoreReportRaises ==
    /\ pc = "restoring"
    /\ to_restore = {}
    /\ ~restored_exists
    /\ pc' = "report_raised"
    /\ UNCHANGED <<entity_counters, entity_memory, call, runs, chunker, merging, backend, input_files,
                   output_exists,
                   files_to_process, next_file, path_cache, all_mappings,
                   moodle_grades_handler, output_files, mapping_file, history,
                   deanonymizer_mappings, to_restore, stats, restored_files, restored_exists>>

NextDir ==
    \/ GatherFiles
    \/ AnonymizeOneFile
    \/ AnonymizeOneFileRaises
    \/ SaveMapping
    \/ SaveMappingRaises
    \/ NewDeanonymizer
    \/ NewDeanonymizerRaises
    \/ RestoreWalk
    \/ RestoreOneFile
    \/ RestoreOneFileRaises
    \/ RestoreReport
    \/ RestoreReportRaises

SpecDir == InitDir /\ [][NextDir]_vars

\* -------------------------------- a second call of process_directory

\* process_directory called once more on the instance whose call has
\* returned, on the same input tree, up to its loop: the files are gathered
\* anew and total_files is set; all_mappings, path_cache and the registry of
\* the LocalAnonymizer are those the earlier call left. history goes on as
\* the log of the turns of both calls.
ProcessDirectoryAgain ==
    /\ pc = "saved"
    /\ Len(history) = Len(files_to_process)
    /\ files_to_process' = gather_files_to_process(DOMAIN input_files)
    /\ all_mappings' = [all_mappings EXCEPT !.statistics.total_files =
                                                 Len(files_to_process')]
    /\ next_file' = 1
    /\ pc' = "processing"
    /\ UNCHANGED <<entity_counters, entity_memory, call, runs, chunker, merging, backend, input_files,
                   output_exists,
                   path_cache, moodle_grades_handler, output_files, mapping_file,
                   history, deanonymizer_mappings, to_restore, stats, restored_files,
                   restored_exists>>

NextAgain ==
    \/ GatherFiles
    \/ AnonymizeOneFile
    \/ AnonymizeOneFileRaises
    \/ SaveMapping
    \/ SaveMappingRaises
    \/ ProcessDirectoryAgain

SpecAgain == InitDir /\ [][NextAgain]_vars

\* ------------------------------------------------------ a chunk_text call

\* The texts chunked: up to MaxTextLen characters, two words, spaces, newlines.
ChunkTexts == UNION {[1..n -> {"a", "b", " ", "\n"}] : n \in 0..MaxTextLen}

InitChunk ==
    /\ InitSession
    /\ runs = NoRuns
    /\ NewDirectoryAnonymizer(EmptyDict)
    /\ output_exists = FALSE
    /\ restored_exists = FALSE
    /\ \E s \in ChunkTexts, counter \in Counters, max_tokens \in MinTokens..MaxTokens,
          lookback_words \in {0, 1, lookback_words_default} :
          chunker = NewChunker(s, counter, max_tokens, lookback_words)
    /\ merging = NoMerging
    /\ backend = NoBackend

\* The generator's locals as the loop's operators take them
Locals ==
    [current_chunk_lines |-> chunker.current_chunk_lines,
     current_tokens |-> chunker.current_tokens,
     previous_words |-> chunker.previous_words,
     chunks |-> chunker.chunks]

WithLocals(st) ==
    [chunker EXCEPT !.current_chunk_lines = st.current_chunk_lines,
                    !.current_tokens = st.current_tokens,
                    !.previous_words = st.previous_words,
                    !.chunks = st.chunks]

\* One turn of the loop over lines
NextLine ==
    /\ chunker.pc = "lines"
    /\ chunker.line_no <= Len(chunker.lines)
    /\ ~DividesByZero(chunker.lines[chunker.line_no], chunker.count_tokens,
                      chunker.max_tokens)
    /\ chunker' = [WithLocals(ChunkLine(Locals, chunker.lines[chunker.line_no],
                                        chunker.count_tokens, chunker.max_tokens,
                                        chunker.lookback_words))
                     EXCEPT !.line_no = @ + 1]
    /\ UNCHANGED <<entity_counters, entity_memory, call, runs, directory, merging, backend>>

\* A turn of the loop that raises ZeroDivisionError, after the flush of the
\* lines held
NextLineRaises ==
    /\ chunker.pc = "lines"
    /\ chunker.line_no <= Len(chunker.lines)
    /\ DividesByZero(chunker.lines[chunker.line_no], chunker.count_tokens,
                     chunker.max_tokens)
    /\ chunker' = [WithLocals(IF chunker.current_chunk_lines # << >>
                              THEN Flush(Locals, chunker.lookback_words)
                              ELSE Locals)
                     EXCEPT !.pc = "raised"]
    /\ UNCHANGED <<entity_counters, entity_memory, call, runs, directory, merging, backend>>

\* The end of the generator
RemainingLines ==
    /\ chunker.pc = "lines"
    /\ chunker.line_no > Len(chunker.lines)
    /\ chunker' = [chunker EXCEPT !.chunks = remaining_lines(Locals), !.pc = "done"]
    /\ UNCHANGED <<entity_counters, entity_memory, call, runs, directory, merging, backend>>

NextChunk == NextLine \/ NextLineRaises \/ RemainingLines

SpecChunk == InitChunk /\ [][NextChunk]_vars

\* ------------------------------------------------------ a merge of detections

\* merged[category].extend(items) for the categories of one result
RECURSIVE ExtendAll(_, _)
ExtendAll(merged, result) ==
    IF result = << >> THEN merged
    ELSE LET category == result[1][1]
             items == result[1][2]
             held == IF HasKey(merged, category) THEN DictGet(merged, category) ELSE << >>
         IN  ExtendAll(DictSet(merged, category, held \o items), Tail(result))

\* "Collect all results by category"
RECURSIVE CollectResults(_, _)
CollectResults(merged, results) ==
    IF results = << >> THEN merged
    ELSE CollectResults(ExtendAll(merged, results[1]), Tail(results))

\* A merge that keeps the duplicates.
unique_items_kept(items) == items

\* "Remove duplicates while preserving order"
unique_items(items) == DistinctInOrder(items)

\* _merge_pii_results(results)
_merge_pii_results(results) ==
    LET merged == CollectResults(EmptyDict, results)
    IN  [i \in 1..Len(merged) |-> <<merged[i][1], unique_items(merged[i][2])>>]

\* The detections merged: of chunks or of backends, with a category in
\* common or not, an empty list, an entity reported twice.
DetectionPool ==
    {EmptyDict,
     << <<PERSONS, <<Name(1)>> >> >>,
     << <<PERSONS, <<Name(1), Name(2)>> >> >>,
     << <<PERSONS, <<Name(2), Name(1), Name(2)>> >> >>,
     << <<EMAILS, <<Email(1)>> >>, <<PERSONS, <<Name(1)>> >> >>,
     << <<PERSONS, << >> >>, <<EMAILS, <<Email(1)>> >> >>}

InitMerge ==
    /\ InitSession
    /\ runs = NoRuns
    /\ NewDirectoryAnonymizer(EmptyDict)
    /\ output_exists = FALSE
    /\ restored_exists = FALSE
    /\ chunker = NoChunker
    /\ \E first, second \in DetectionPool : merging = NewMerging(first, second)
    /\ backend = NoBackend

\* _detect_pii_chunked: the results of two chunks are merged
MergeChunkResults ==
    /\ merging.pc = "new"
    /\ merging' = [merging EXCEPT !.merged = _merge_pii_results(merging.results),
                                  !.by = "_merge_pii_results", !.pc = "merged"]
    /\ UNCHANGED <<entity_counters, entity_memory, call, runs, directory, chunker, backend>>

\* anonymize_data: the backend's result is merged with that of the patterns
MergeBackendResults ==
    /\ merging.pc = "new"
    /\ \E m \in _merge_pii_data(merging.results[1], merging.results[2]) :
          merging' = [merging EXCEPT !.merged = m, !.by = "_merge_pii_data",
                                     !.pc = "merged"]
    /\ UNCHANGED <<entity_counters, entity_memory, call, runs, directory, chunker, backend>>

\* The merged detection is merged with itself, as two chunk results
MergeAgainAsChunks ==
    /\ merging.pc = "merged"
    /\ merging' = [merging EXCEPT
                     !.again = _merge_pii_results(<<merging.merged, merging.merged>>),
                     !.again_by = "_merge_pii_results", !.pc = "again"]
    /\ UNCHANGED <<entity_counters, entity_memory, call, runs, directory, chunker, backend>>

\* The merged detection is merged with itself, as two backend results
MergeAgainAsBackends ==
    /\ merging.pc = "merged"
    /\ \E m \in _merge_pii_data(merging.merged, merging.merged) :
          merging' = [merging EXCEPT !.again = m, !.again_by = "_merge_pii_data",
                                     !.pc = "again"]
    /\ UNCHANGED <<entity_counters, entity_memory, call, runs, directory, chunker, backend>>

NextMerge ==
    \/ MergeChunkResults
    \/ MergeBackendResults
    \/ MergeAgainAsChunks
    \/ MergeAgainAsBackends

SpecMerge == InitMerge /\ [][NextMerge]_vars

\* ------------------------------------------------------ a failing backend

\* The classes with a detect_pii
BackendClasses == {"LLMBackend", "OpenPipeBackend", "PresidioBackend"}

\* What the model behind a backend does in one call: it detects, its
\* inference raises, or (a generating model) it answers text that is not
\* JSON, or JSON that is a list.
Answers(class) ==
    IF class = "LLMBackend"
    THEN {"detected", "inference_error", "not_json", "json_list"}
    ELSE {"detected", "inference_error"}

\* "Return empty structure": every category of the prompt with no entity
EmptyStructure ==
    << <<PERSONS, << >> >>, <<EMAILS, << >> >>, <<PHONES, << >> >>,
       <<ADDRESSES, << >> >>, <<ORGANIZATIONS, << >> >>, <<CREDIT_CARDS, << >> >>,
       <<SSN, << >> >> >>

\* detect_pii(text) of a backend of the class, its model giving the answer
\* (detection when it detects): [raised, is_dict, returned]. LLMBackend
\* catches the error of its pipeline and a JSONDecodeError and returns what
\* json.loads made of any other answer; PresidioBackend catches the error
\* of its analyzer; OpenPipeBackend catches nothing.
detect_pii(class, t, answer, detection) ==
    IF t = << >> /\ class # "LLMBackend"
    THEN [raised |-> FALSE, is_dict |-> TRUE, returned |-> EmptyDict]
    ELSE IF answer = "detected"
    THEN [raised |-> FALSE, is_dict |-> TRUE, returned |-> detection]
    ELSE IF class = "LLMBackend"
    THEN IF answer = "json_list"
         THEN [raised |-> FALSE, is_dict |-> FALSE, returned |-> EmptyDict]
         ELSE [raised |-> FALSE, is_dict |-> TRUE, returned |-> EmptyStructure]
    ELSE IF class = "PresidioBackend"
    THEN [raised |-> FALSE, is_dict |-> TRUE, returned |-> EmptyDict]
    ELSE [raised |-> TRUE, is_dict |-> TRUE, returned |-> EmptyDict]

InitBackend ==
    /\ InitSession
    /\ runs = NoRuns
    /\ NewDirectoryAnonymizer(EmptyDict)
    /\ output_exists = FALSE
    /\ restored_exists = FALSE
    /\ chunker = NoChunker
    /\ merging = NoMerging
    /\ \E class \in BackendClasses : backend = NewBackend(class)

\* anonymize_data(t) returns, its backend's model giving the answer
AnonymizeWithBackend(t, answer, detection) ==
    /\ calls < MaxCalls
    /\ answer \in Answers(backend.class)
    /\ LET d == detect_pii(backend.class, t, answer, detection)
       IN  /\ t = << >> \/ (~d.raised /\ d.is_dict)
           /\ backend' = IF t = << >> THEN [backend EXCEPT !.answer = "none"]
                         ELSE [backend EXCEPT !.answer = answer,
                                              !.returned = d.returned]
           /\ \E r \in anonymize_data(t, d.returned, entity_memory, entity_counters) :
                 /\ entity_memory' = r.memory
                 /\ entity_counters' = r.counters
                 /\ llm_pii' = IF t = << >> THEN EmptyDict ELSE d.returned
                 /\ pii_data' = r.pii
                 /\ anonymized_text' = r.text
                 /\ mappings' = r.mappings
    /\ text' = t
    /\ op' = "anonymize"
    /\ calls' = calls + 1
    /\ UNCHANGED <<restored, fresh, after_reset, substituted, repeats, runs, directory,
                   chunker, merging>>

\* anonymize_data(t) raises: detect_pii raised, or returned a list, which
\* has neither keys nor items()
AnonymizeWithBackendRaises(t, answer, detection) ==
    /\ calls < MaxCalls
    /\ answer \in Answers(backend.class)
    /\ t # << >>
    /\ LET d == detect_pii(backend.class, t, answer, detection)
       IN  /\ d.raised \/ ~d.is_dict
           /\ backend' = [backend EXCEPT !.answer = answer, !.returned = d.returned,
                                         !.raised = d.raised]
    /\ text' = t
    /\ op' = "raised"
    /\ calls' = calls + 1
    /\ UNCHANGED <<entity_counters, entity_memory, llm_pii, pii_data, anonymized_text,
                   mappings, restored, fresh, after_reset, substituted, repeats, runs,
                   directory, chunker, merging>>

NextBackend ==
    \E t \in Texts : \E detection \in BackendResults(t) :
       \E answer \in {"detected", "inference_error", "not_json", "json_list"} :
          \/ AnonymizeWithBackend(t, answer, detection)
          \/ AnonymizeWithBackendRaises(t, answer, detection)

SpecBackend == InitBackend /\ [][NextBackend]_vars

\* ------------------------------------------------- claims on the session

\* C1: round-trip identity. Whenever anonymize_data ran on a fresh registry
\* and deanonymize was applied to the text and mapping it returned, the
\* restored text is the original text.
C1_RoundTrip == (op = "deanonymize" /\ fresh) => restored = text

\* C2: tag stability. Every substitution made since the last reset() used the
\* token entity_memory holds for that original now: the entry never changed,
\* and an original substituted in two calls got the same token in both.
C2_TagStability ==
    \A p \in substituted : p[1] \in DOMAIN entity_memory /\ entity_memory[p[1]] = p[2]

\* An original was substituted in two different calls of one session.
C2_Witness == op = "anonymize" /\ repeats # {}

IsTokenOf(tag, tok) ==
    LET prefix == REDACTED_ \o tag
    IN  /\ Len(tok) > Len(prefix)
        /\ SubSeq(tok, 1, Len(prefix)) = prefix
        /\ \A i \in (Len(prefix) + 1)..Len(tok) : IsDigit(tok[i])

\* In the mapping m, the first token of every tag carries number 1.
NumberedFromOne(m) ==
    \A tag \in TagNames :
        LET idx == {i \in 1..Len(m) : IsTokenOf(tag, m[i][1])}
        IN  idx # {} => m[Min(idx)][1] = Token(tag, 1)

\* C7: reset independence. Right after reset() the memory is empty and every
\* counter is zero, and the first call after it numbers the first new entity
\* of each category 1.
C7_ResetIndependence ==
    /\ op = "reset" => entity_memory = EmptyDict /\ \A t \in TagNames : entity_counters[t] = 0
    /\ (op = "anonymize" /\ calls = 1) => NumberedFromOne(mappings)

\* The first call after a reset() that cleared a used registry issued tokens.
C7_Witness == op = "anonymize" /\ calls = 1 /\ after_reset /\ mappings # EmptyDict

\* C8: deanonymization is insensitive to order. The replacements of the
\* mapping a call returned, applied to the text it returned in any order,
\* give the result the dictionary's own order gives.
C8_OrderInsensitive ==
    (op = "anonymize" /\ Len(mappings) <= MaxPermLen) =>
        \A m \in ListsOf(Range(mappings)) :
            deanonymize(anonymized_text, m) = deanonymize(anonymized_text, mappings)

\* --------------------------------------------- claims on a directory run

\* The <<original, token>> assignments made so far in the run: by the
\* LocalAnonymizer for path components and contents, by the grades handler
\* for the grades file.
Assignments ==
    {<<e, entity_memory[e]>> : e \in DOMAIN entity_memory}
    \cup (IF moodle_grades_handler = None THEN {}
          ELSE LET h == moodle_grades_handler[1]
               IN  {<<n, h.name_to_token[n]>> : n \in DOMAIN h.name_to_token}
                   \cup {<<m, h.email_to_token[m]>> : m \in DOMAIN h.email_to_token})

\* C3: token uniqueness. Across everything processed in one directory run
\* (grades file, path components, file contents), no two distinct originals
\* are assigned the same token.
C3_TokenUniqueness ==
    \A p \in Assignments : \A q \in Assignments : p[2] = q[2] => p[1] = q[1]

\* C4: grades-file mappings carry over. When the grades file lists student
\* N and the run has anonymized a submission directory 'N_<id>_<suffix>',
\* the directory's anonymized name is '<token>_<id>_<suffix>' with the token
\* that replaces N in the grades file.
C4_GradesCarryOver ==
    moodle_grades_handler # None =>
        \A d \in DOMAIN path_cache :
            (is_moodle_submission(d)
             /\ MoodleGroups(d).name_part \in DOMAIN moodle_grades_handler[1].name_to_token)
            => path_cache[d] =
                 <<moodle_grades_handler[1].name_to_token[MoodleGroups(d).name_part]
                   \o <<"_">> \o MoodleGroups(d).id_part
                   \o <<"_">> \o MoodleGroups(d).suffix_part>>

\* C5: directory round trip. After restore_directory has run on the
\* anonymized tree with the written mapping file, no file of it having
\* failed to restore, every file that process_directory processed
\* successfully is in the restored tree at its original relative path with
\* its original content.
C5_DirectoryRoundTrip ==
    (pc = "restored" /\ stats.errors = << >>) =>
        \A i \in 1..Len(history) :
            ~history[i].raised =>
                /\ PathStr(history[i].file) \in DOMAIN restored_files
                /\ restored_files[PathStr(history[i].file)]
                     = input_files[history[i].file].content

IsToken(tok) == \E tag \in TagNames : IsTokenOf(tag, tok)

\* Every key of the mapping is a token and no value is one.
TokenToOriginal(m) ==
    \A i \in 1..Len(m) : IsToken(m[i][1]) /\ ~IsToken(m[i][2])

\* C6: unified mapping shape. At every point of a directory run, and in the
\* mapping file written at its end, every key of 'mappings' is a token
\* REDACTED_<TAG><N> and its value an original; no entry goes from an
\* original to a token.
C6_MappingShape ==
    /\ TokenToOriginal(all_mappings.mappings)
    /\ mapping_file # None => TokenToOriginal(mapping_file[1].mappings)

\* The turns of the loop that raised, in order.
Raised == SelectSeq(history, LAMBDA h : h.raised)

\* process_directory has left its loop and ended, by return or by raising.
Ended == pc \in {"saved", "raised", "loaded", "restoring", "restored", "report_raised"}

\* C10: partial-failure semantics. statistics.errors holds, in order, the
\* path and the message of every file whose processing raised, skipped_files
\* counts them, and the loop went on after each: the files taken so far are
\* the first of the list, one turn each, every one that did not raise was
\* processed, and the mapping file is written only after the last.
C10_PartialFailure ==
    /\ all_mappings.statistics.errors =
         [i \in 1..Len(Raised) |->
            [file |-> FileStr(Raised[i].file), error |-> Raised[i].error]]
    /\ all_mappings.statistics.skipped_files = Len(Raised)
    /\ all_mappings.statistics.processed_files = Len(history) - Len(Raised)
    /\ Len(history) <= Len(files_to_process)
    /\ \A i \in 1..Len(history) :
          /\ history[i].file = files_to_process[i]
          /\ ~history[i].raised => history[i].out \in DOMAIN output_files
    /\ pc # "new" => next_file = Len(history) + 1
    /\ (Ended \/ mapping_file # None) => Len(history) = Len(files_to_process)

\* A run is over in which a file raised and a later file was processed.
C10_Witness ==
    /\ pc = "saved"
    /\ \E i \in 1..Len(history) : \E j \in (i + 1)..Len(history) :
          history[i].raised /\ ~history[j].raised

\* C11: the mapping file is always written. Once process_directory has left
\* its loop and ended, the output directory holds the mapping file, whether
\* files failed, all failed, or none qualified.
C11_MappingFileWritten ==
    Ended =>
        /\ mapping_file # None
        /\ <<mapping_filename>> \in DOMAIN output_files

\* ---------------------------------------------- claims on a chunk_text call

\* The words of the chunks' own contents, lookback left out, in the order
\* the chunks were yielded.
RECURSIVE OwnWords(_)
OwnWords(chunks) ==
    IF chunks = << >> THEN << >>
    ELSE Split(Join(chunks[1].own, <<"\n">>)) \o OwnWords(Tail(chunks))

\* C12: chunk coverage. When chunk_text has ended, max_tokens being at least
\* 1, every word of the text is in the own content of some chunk, and the
\* own contents, one after the other, give the words of the text in the
\* order of the text.
C12_ChunkCoverage ==
    (chunker.pc = "done" /\ chunker.max_tokens >= 1) =>
        /\ \A w \in Range(Split(chunker.text)) :
              \E i \in 1..Len(chunker.chunks) :
                 w \in Range(Split(Join(chunker.chunks[i].own, <<"\n">>)))
        /\ OwnWords(chunker.chunks) = Split(chunker.text)

\* A call has ended that split one line into fragments and yielded the
\* lines held before it.
C12_Witness ==
    /\ chunker.pc = "done"
    /\ chunker.max_tokens >= 1
    /\ Len(chunker.chunks) >= 3
    /\ Len(chunker.lines) = 2

\* C13: no empty chunk. For a valid max_tokens, chunk_text on the empty
\* text yields no chunk, and no chunk yielded is the empty string.
C13_NoEmptyChunk ==
    chunker.max_tokens >= 1 =>
        /\ (chunker.pc = "done" /\ chunker.text = << >>) => chunker.chunks = << >>
        /\ \A i \in 1..Len(chunker.chunks) : chunker.chunks[i].chunk # << >>

\* C14: max_tokens <= 0 is rejected. A call with max_tokens <= 0 yields no
\* chunk and does not end normally.
C14_RejectsNonPositive ==
    (chunker.pc # "none" /\ chunker.max_tokens <= 0) =>
        chunker.chunks = << >> /\ chunker.pc # "done"

\* The chunk's own content is one line or one word that alone exceeds the
\* budget.
AloneOverBudget(c) ==
    /\ Len(c.own) = 1
    /\ count_tokens(chunker.count_tokens, c.own[1]) > chunker.max_tokens

\* C15: token budget. For max_tokens >= 1, every chunk yielded, lookback
\* included, counts at most max_tokens tokens, unless its own content is a
\* single line or word that alone exceeds the budget.
C15_TokenBudget ==
    chunker.max_tokens >= 1 =>
        \A i \in 1..Len(chunker.chunks) :
            \/ count_tokens(chunker.count_tokens, chunker.chunks[i].chunk)
                 <= chunker.max_tokens
            \/ AloneOverBudget(chunker.chunks[i])

\* The name is '<token>_<id>_<suffix>' for one PERSON token.
IsRedactedSubmission(name, id_part, suffix_part) ==
    \E n \in 1..Len(name) :
        /\ IsTokenOf(PERSON, SubSeq(name, 1, n))
        /\ name = SubSeq(name, 1, n) \o <<"_">> \o id_part \o <<"_">> \o suffix_part

\* C16: Moodle convention. Every submission directory 'Name_ID_suffix' the
\* run has anonymized is named 'REDACTED_PERSON<k>_ID_suffix': one PERSON
\* token in place of the whole name, ID and suffix kept, whatever the
\* backend detected in the name.
C16_MoodleConvention ==
    \A d \in DOMAIN path_cache :
        is_moodle_submission(d) =>
            /\ Len(path_cache[d]) = 1
            /\ IsRedactedSubmission(path_cache[d][1], MoodleGroups(d).id_part,
                                    MoodleGroups(d).suffix_part)

\* ------------------------------------------------- claims on file names

\* C17: the grades file is never renamed. Every anonymize_filename call on
\* 'moodle_grades.csv' returns the name unchanged and an empty mapping, and
\* leaves entity_memory and entity_counters as they were, whatever they hold.
C17_GradesNeverRenamed ==
    [][(op' = "filename" /\ text' = GRADES_CSV) =>
          /\ anonymized_text' = GRADES_CSV
          /\ mappings' = EmptyDict
          /\ entity_memory' = entity_memory
          /\ entity_counters' = entity_counters]_vars

\* anonymize_filename has run on the grades file with a registry in use.
C17_Witness ==
    op = "filename" /\ text = GRADES_CSV /\ entity_memory # EmptyDict

\* The files of the run come after one another in this order.
InSortOrder(p, q) ==
    \/ Len(p) < Len(q)
    \/ Len(p) = Len(q) /\ StrLess(PathStr(p), PathStr(q))

\* The directories above a file, as the keys of the path cache
Ancestors(rel_path) ==
    {PathStr(SubSeq(rel_path, 1, n)) : n \in 1..(Len(rel_path) - 1)}

\* C18: processing order. Once the files are gathered, the list holds each
\* eligible file once; the grades file at the root, when present, is its
\* first entry; the other files follow by number of path segments, then by
\* their path as a string; the files are handled in the order of the list,
\* and every directory above a handled file is in the path cache.
C18_ProcessingOrder ==
    pc # "new" =>
      /\ Range(files_to_process) = {p \in DOMAIN input_files : should_process_file(p)}
      /\ Len(files_to_process) = Cardinality(Range(files_to_process))
      /\ <<GRADES_CSV>> \in DOMAIN input_files => files_to_process[1] = <<GRADES_CSV>>
      /\ \A i, j \in 1..Len(files_to_process) :
            (i < j /\ files_to_process[i] # <<GRADES_CSV>>) =>
               InSortOrder(files_to_process[i], files_to_process[j])
      /\ \A k \in 1..Len(history) :
            /\ history[k].file = files_to_process[k]
            /\ Ancestors(history[k].file) \subseteq DOMAIN path_cache

\* A run has handled the grades file, then a file at the root, then a file
\* of a directory whose path sorts before both as a string, then a file two
\* directories deep.
C18_Witness ==
    /\ Len(history) = 4
    /\ history[1].file = <<GRADES_CSV>>
    /\ history[2].file = Notes
    /\ history[3].file = InNamedDir
    /\ history[4].file = InDeeperNamedDir

\* The files the run has written, with the paths they were written to
Written == {history[k] : k \in {i \in 1..Len(history) : ~history[i].raised}}

\* Two written files that share their first n directories are written below
\* the same n anonymized directories.
SameDirectorySameOutput ==
    \A a, b \in Written :
       \A n \in 1..(Len(a.file) - 1) :
          (n < Len(b.file) /\ SubSeq(a.file, 1, n) = SubSeq(b.file, 1, n)) =>
             SubSeq(a.out, 1, n) = SubSeq(b.out, 1, n)

\* A directory name has one anonymized name wherever it occurs.
SameNameSameOutput ==
    \A a, b \in Written :
       \A n \in 1..(Len(a.file) - 1), m \in 1..(Len(b.file) - 1) :
          a.file[n] = b.file[m] => a.out[n] = b.out[m]

\* C19: path consistency. Within one directory run, a directory name that
\* occurs at several places of the tree is rewritten to the same anonymized
\* name at every place, and all files of one original directory are written
\* under the same anonymized directory.
C19_PathConsistency == SameNameSameOutput /\ SameDirectorySameOutput

\* ------------------------------------------------------ claims on the merges

\* The categories of a detection, in its order
CategoriesOf(d) == [i \in 1..Len(d) |-> d[i][1]]

\* The detection lists every entity of every category once.
EachEntityOnce(d) ==
    \A i \in 1..Len(d) : Len(d[i][2]) = Cardinality(Range(d[i][2]))

\* C20: merge idempotence. A merged detection merged with itself, by the
\* merge of chunk results or by the merge of backend results, has the same
\* categories, every category has the same entities, and every entity is
\* listed once.
C20_MergeIdempotence ==
    merging.pc = "again" =>
      /\ CategoriesOf(merging.again) = CategoriesOf(merging.merged)
      /\ \A i \in 1..Len(merging.merged) :
            Range(merging.again[i][2]) = Range(merging.merged[i][2])
      /\ EachEntityOnce(merging.again)

\* Two different detections with a person in common were merged, and the
\* result, of two categories, was merged with itself.
C20_Witness ==
    /\ merging.pc = "again"
    /\ merging.results[1] # merging.results[2]
    /\ Len(merging.merged) = 2
    /\ \E i \in 1..2 : Len(merging.merged[i][2]) = 2
    /\ \A k \in 1..2 :
          /\ HasKey(merging.results[k], PERSONS)
          /\ Name(1) \in Range(DictGet(merging.results[k], PERSONS))

\* -------------------------------------------------- claims on the restore

\* C21: a missing mapping file is fatal on restore. When the constructor of
\* DirectoryDeanonymizer has raised for want of the mapping file, no mappings
\* were loaded, no file of the anonymized tree was walked or read and nothing
\* was written; a restore is under way only with the mappings of an existing
\* mapping file.
C21_MissingMappingFatal ==
    /\ pc = "no_mapping" =>
         /\ ~MappingFileExists(mapping_file)
         /\ deanonymizer_mappings = None
         /\ to_restore = {}
         /\ stats = NewStats
         /\ restored_files = EmptyDict
    /\ pc \in {"loaded", "restoring", "restored", "report_raised"} =>
         /\ mapping_file # None
         /\ deanonymizer_mappings = mapping_file

\* The constructor raised although the anonymized tree holds a file.
C21_Witness == pc = "no_mapping" /\ output_files # EmptyDict

\* The files of the walk whose restoring raised
FailedToRestore == {stats.errors[i].file : i \in 1..Len(stats.errors)}

\* A turn of the loop of restore_directory in which the file raised
RestoreFailed == pc = "restoring" /\ Len(stats'.errors) = Len(stats.errors) + 1

\* C28: restore is non-fatal per file. A turn of the loop of
\* restore_directory whose file raises records the path of that file as the
\* last of errors, leaves the files restored before as they are and the
\* loop going on the files that remain; every file of the walk the loop is
\* done with is counted in restored_files or listed in errors, never both,
\* and when restore_directory returns, restored_files + len(errors) is
\* total_files.
C28_RestoreNonFatal ==
    /\ [](pc \in {"restoring", "restored", "report_raised"} =>
            /\ stats.total_files = Cardinality(DOMAIN output_files)
            /\ stats.restored_files + Len(stats.errors) + Cardinality(to_restore)
                 = stats.total_files
            /\ Cardinality(FailedToRestore) = Len(stats.errors)
            /\ FailedToRestore \subseteq
                 {PathStr(f) : f \in DOMAIN output_files \ to_restore})
    /\ [](pc = "restored" =>
            stats.restored_files + Len(stats.errors) = stats.total_files)
    /\ [][RestoreFailed =>
            /\ \E f \in to_restore :
                  /\ stats'.errors[Len(stats'.errors)].file = PathStr(f)
                  /\ to_restore' = to_restore \ {f}
            /\ SubSeq(stats'.errors, 1, Len(stats.errors)) = stats.errors
            /\ stats'.restored_files = stats.restored_files
            /\ restored_files' = restored_files
            /\ pc' = "restoring"]_vars

\* restore_directory has returned after one file raised and a file after it
\* was restored.
C28_Witness ==
    /\ pc = "restored"
    /\ Len(stats.errors) = 1
    /\ stats.restored_files >= 2
    /\ Cardinality(DOMAIN restored_files) >= 1

\* The entities a detection lists for a category, none if it has not the
\* category
EntitiesOf(d, category) == IF HasKey(d, category) THEN DictGet(d, category) ELSE << >>

\* C24: merge order. The merge of two detections, of chunks or of the model
\* and the patterns, has the categories of both; a category of both lists
\* every entity once in first-seen order (those of the first result in
\* their order, then the new ones of the second in theirs); a category of
\* one result alone is kept as it is, or with its repetitions removed in
\* first-seen order.
C24_MergeOrder ==
    merging.pc \in {"merged", "again"} =>
       LET first == merging.results[1]
           second == merging.results[2]
       IN  /\ Keys(merging.merged) = Keys(first) \cup Keys(second)
           /\ \A category \in Keys(merging.merged) :
                 LET all == EntitiesOf(first, category) \o EntitiesOf(second, category)
                     got == DictGet(merging.merged, category)
                 IN  \/ got = DistinctInOrder(all)
                     \/ /\ ~(HasKey(first, category) /\ HasKey(second, category))
                        /\ got = all

\* ------------------------------------------------- claims on the backends

\* C22: a backend failure means zero detections. When the model behind a
\* backend fails in a call (its inference raises, its answer is not the JSON
\* asked for), detect_pii of every backend class returns a result without
\* entities and does not raise, and anonymize_data completes on what the
\* patterns detect.
C22_BackendFailureTolerated ==
    backend.answer \notin {"none", "detected"} =>
       /\ ~backend.raised
       /\ op = "anonymize"
       /\ \A i \in 1..Len(backend.returned) : backend.returned[i][2] = << >>
       /\ \E rx \in _detect_regex_patterns(text) :
             pii_data \in _merge_pii_data(backend.returned, rx)

\* --------------------------------------- further claims on the session

\* C23: no redacted original remains. After anonymize_data returned the
\* text A and the mapping M, no original that is a value of M occurs in A,
\* whatever was detected and whatever the registry held. (The empty string,
\* which occurs in every text, is left aside.)
C23_NoOriginalRemains ==
    op = "anonymize" =>
       \A v \in Values(mappings) : v # << >> => ~Contains(anonymized_text, v)

\* The entities of the merged detection of the last call
Detected == UNION {Range(pii_data[i][2]) : i \in 1..Len(pii_data)}

\* C25: the mapping holds exactly the tokens of the returned text. Every key
\* of the mapping anonymize_data returned occurs in the text it returned and
\* stands for an entity detected in the call; an entity whose substitution
\* changes nothing, as the empty string, has no entry and no token.
C25_MappingMatchesText ==
    op = "anonymize" =>
       /\ \A k \in Keys(mappings) : Contains(anonymized_text, k)
       /\ Values(mappings) \subseteq Detected
       /\ << >> \notin Values(mappings)
       /\ << >> \notin DOMAIN entity_memory

\* The originals entity_memory holds with a token of the tag
Holding(tag) == {e \in DOMAIN entity_memory : IsTokenOf(tag, entity_memory[e])}

\* For every tag, the tokens of the tag in entity_memory are those numbered
\* 1..counter, one original each.
CountersMatchMemory ==
    /\ \A e \in DOMAIN entity_memory : \E tag \in TagNames : IsTokenOf(tag, entity_memory[e])
    /\ \A tag \in TagNames :
          /\ Cardinality(Holding(tag)) = entity_counters[tag]
          /\ {entity_memory[e] : e \in Holding(tag)} =
               {Token(tag, n) : n \in 1..entity_counters[tag]}

\* A call that leaves entity_memory with the originals it had leaves the
\* counters as they were.
KnownOnlyKeepsCounters ==
    (op' \in {"anonymize", "filename"} /\ DOMAIN entity_memory' = DOMAIN entity_memory) =>
       entity_counters' = entity_counters

\* C26: counter invariant. In every registry state, the counter of each tag
\* is the number of originals in entity_memory that hold a token of the tag,
\* those tokens carry the numbers 1..counter, none missing and none twice,
\* and a call that meets only entities already in entity_memory changes no
\* counter.
C26_CounterInvariant == []CountersMatchMemory /\ [][KnownOnlyKeepsCounters]_vars

\* A call has substituted entities, all of them known from an earlier call,
\* with two tokens of one tag in the registry.
C26_Witness ==
    /\ op = "anonymize"
    /\ mappings # EmptyDict
    /\ Values(mappings) = repeats
    /\ \E tag \in TagNames : entity_counters[tag] >= 2

\* ------------------------------------------- further claims on the chunker

\* ceil(a / b) for b > 0
Ceil(a, b) == (a + b - 1) \div b

\* C27: sub-splitting. A turn of the loop on a line of more than max_tokens
\* tokens first yields the lines held as one chunk, then yields the line as
\* ceil(line_tokens / max_tokens) fragments, each a chunk of its own, that
\* hold the words of the line in order and differ by at most one word in
\* length.
C27_SubSplitting ==
    [][LET line == chunker.lines[chunker.line_no]
           line_tokens == count_tokens(chunker.count_tokens, line)
           held == chunker.current_chunk_lines
           flushed == IF held = << >> THEN 0 ELSE 1
           new == SubSeq(chunker'.chunks, Len(chunker.chunks) + 1, Len(chunker'.chunks))
           fragments == SubSeq(new, flushed + 1, Len(new))
       IN  (/\ chunker.pc = "lines"
            /\ chunker'.pc = "lines"
            /\ chunker'.line_no = chunker.line_no + 1
            /\ chunker.max_tokens >= 1
            /\ line_tokens > chunker.max_tokens) =>
              /\ Len(new) = flushed + Ceil(line_tokens, chunker.max_tokens)
              /\ flushed = 1 => new[1].own = held
              /\ \A i \in 1..Len(fragments) : Len(fragments[i].own) = 1
              /\ OwnWords(fragments) = Split(line)
              /\ \A i, j \in 1..Len(fragments) :
                    Len(Split(fragments[i].own[1])) <= Len(Split(fragments[j].own[1])) + 1
      ]_vars

\* What _format_chunk put before the chunk's own content
LookbackPrefix(c) ==
    LET own == Join(c.own, <<"\n">>)
    IN  IF c.chunk = own THEN << >>
        ELSE SubSeq(c.chunk, 1, Len(c.chunk) - Len(own) - 1)

EndsWith(words, suffix) ==
    /\ Len(suffix) <= Len(words)
    /\ SubSeq(words, Len(words) - Len(suffix) + 1, Len(words)) = suffix

\* C29: lookback bound. For a valid max_tokens and every lookback_words >= 0,
\* the first chunk has no lookback prefix, and the prefix of every later
\* chunk is at most lookback_words words, the last words of the own content
\* of the chunk before it; with lookback_words = 0 every chunk is its own
\* content.
C29_LookbackBound ==
    chunker.max_tokens >= 1 =>
        \A i \in 1..Len(chunker.chunks) :
            LET prefix == Split(LookbackPrefix(chunker.chunks[i]))
            IN  /\ Len(prefix) <= chunker.lookback_words
                /\ i = 1 => prefix = << >>
                /\ i > 1 => EndsWith(Split(Join(chunker.chunks[i - 1].own, <<"\n">>)), prefix)
                /\ chunker.lookback_words = 0 =>
                      chunker.chunks[i].chunk = Join(chunker.chunks[i].own, <<"\n">>)

\* ------------------------------- claims on calls of process_directory

\* C30: run-scoped statistics. Whenever a call of process_directory has
\* returned, the first or a later one on the same instance, the statistics
\* it returned have processed_files + skipped_files = total_files and
\* len(errors) = skipped_files; and the dictionary a call has returned,
\* which is all_mappings of the instance, is changed by no later step.
C30_RunScopedStatistics ==
    /\ [](pc = "saved" =>
            /\ all_mappings.statistics.processed_files
                 + all_mappings.statistics.skipped_files
                 = all_mappings.statistics.total_files
            /\ Len(all_mappings.statistics.errors)
                 = all_mappings.statistics.skipped_files)
    /\ [][mapping_file # None => all_mappings' = all_mappings]_vars


====
